---- MODULE Spec2Model ----
(***************************************************************************)
(* A model of the audio session and render pipeline of the stem player:    *)
(* AudioSession (audio_session.py) with its render worker threads, the     *)
(* control thread that issues selection / tempo / pitch / reset / cancel   *)
(* calls, and the audio callback that swaps a ready pending configuration  *)
(* into the live one.                                                      *)
(*                                                                         *)
(* Granularity.  Every section of code that runs under _pending_lock is    *)
(* one atomic action.  Code of the control thread that runs outside the    *)
(* lock is split into steps, so that the callback's swap and the workers   *)
(* interleave with it: reset_to_original_mix one statement per step,       *)
(* set_selection / ensure_selection_ready and request_tempo_pitch_change   *)
(* one step per group of statements that reads or writes live state.       *)
(*                                                                         *)
(* Numbers.  Tempo is in percent (1.0x = 100), pitch in semitones,         *)
(* positions and lengths in samples.  Seconds are samples / sample_rate on *)
(* both sides of every conversion and cancel out.                          *)
(***************************************************************************)
EXTENDS Integers, Sequences, FiniteSets, TLC

\* ------------------------------------------------------------ constants

None == "None"
MIX == "__mix__"
\* The stem files of the loaded directory.
StemNames == {"a", "b"}

\* Clamp range of request_tempo_pitch_change.
MinTempo == 25
MaxTempo == 200
MinPitch == -6
MaxPitch == 6
\* Tempo and pitch of the audio as loaded.
UnitTempo == 100
ZeroPitch == 0
\* reverb_wet as constructed and as loaded, in percent.
DefaultWet == 45
\* A sample at full scale (1.0).
FullScale == 100
\* Loop fractions are multiples of 1 / FractionGrid; the full track is 0 to
\* FractionGrid.
FractionGrid == 4

\* Bounds of the model.
MaxGen == 2
MaxLen == 8
\* The longest file where the files have lengths of their own.
MaxFileLen == 4
\* The number of clips started on a SamplePlayer and the longest of them.
MaxClips == 2
MaxClipLen == 3

\* Values the control thread asks for (300 and 7 lie outside the clamp range).
SelectionInputs == {{}, {"a"}, {"a", "b"}}
TempoInputs == {100, 300}
PitchInputs == {0, 7}
\* Tempi of the configurations of SpecSwap.
TempoGrid == {25, 50, 100, 200}
\* The longest chunk asked for.
MaxFrames == 3
\* The number the sample rate "sr" stands for where the code computes with
\* it: low enough for the crossfade to be shorter than some loops.
SampleRateHz == 200
\* Values of reverb_wet, in percent.
WetInputs == {0, DefaultWet, 100}
\* What a reverb that has run before puts out for a segment: the level of
\* every sample of it (the delay lines are not modelled; SimpleReverb.process
\* clips to [-1, 1]).
ReverbLevels == {0 - FullScale, 0, FullScale}

\* ------------------------------------------------------------ helpers

Max2(x, y) == IF x >= y THEN x ELSE y
Min2(x, y) == IF x <= y THEN x ELSE y

EmptyDict == << >>
Keys(d) == DOMAIN d
Values(d) == {d[k] : k \in DOMAIN d}
\* dict(d) restricted to the keys in S
Restrict(d, S) == [k \in (DOMAIN d) \cap S |-> d[k]]
\* d.update(e)
DictUpdate(d, e) == [k \in (DOMAIN d) \cup (DOMAIN e) |->
                        IF k \in DOMAIN e THEN e[k] ELSE d[k]]
DictPut(d, k, v) == [x \in (DOMAIN d) \cup {k} |-> IF x = k THEN v ELSE d[x]]

\* Every order in which a Python set can be iterated.
Orderings(S) == {s \in [1..Cardinality(S) -> S] :
                    \A i, j \in 1..Cardinality(S) : i /= j => s[i] /= s[j]}
SeqToSet(s) == {s[i] : i \in 1..Len(s)}
\* [x for x in s if x in S]
FilterSeq(s, S) == SelectSeq(s, LAMBDA x : x \in S)

\* A buffer: the source it was made from, the tempo and pitch it was made
\* with, and the render plan that synthesized it (0: read from disk).
Buffer(src, tempo, pitch, gen) ==
    [src |-> src, tempo |-> tempo, pitch |-> pitch, gen |-> gen]
Original(src) == Buffer(src, UnitTempo, ZeroPitch, 0)
\* None, where a buffer is expected.
NoBuffer == Buffer(None, 0, 0, 0)

\* ------------------------------------------------------------ state

VARIABLES
    \* AudioSession: who holds _pending_lock
    lock,
    \* AudioSession: the audio as loaded (never modified after the load)
    sample_rate,            \* None until audio is loaded
    orig_len,               \* source -> number of samples of the file
    original_stem_data,     \* stem name -> buffer
    original_mix,           \* buffer or None
    \* AudioSession: the live configuration
    current_stem_data,
    current_mix_data,
    tempo_rate,
    pitch_semitones,
    current_missing_stems,
    total_samples,
    play_all,
    active_stems,
    reverb_states,          \* the keys of the reverb_states dict
    \* AudioSession: the pending configuration (guarded by _pending_lock)
    pending_stem_data,
    pending_mix_data,
    pending_tempo_rate,
    pending_pitch_semitones,
    pending_missing_stems,
    pending_total_samples,
    pending_ready,
    pending_generation,
    pending_target_play_all,
    pending_target_active_stems,
    \* the render pipeline
    plans,                  \* every RenderPlan object created, in order
    render_plan,            \* index into plans of _render_plan, 0 for None
    wpc,                    \* per plan: where its worker thread stands
    processed,              \* per plan: the worker's local `processed`
    \* StemAudioPlayer
    play_index,
    \* the control (GUI) thread: where it stands in a call, and its locals
    cpc,
    clocal,
    \* history, read by the properties only
    superseded,             \* plans replaced by a newly started plan
    kept,                   \* per plan: its results when it was replaced
    sel_fresh,              \* the live selection is what the latest
                            \* set_selection call asked for
    last_request,           \* the tempo and pitch the latest call of
                            \* request_tempo_pitch_change was made with
    \* StemAudioPlayer: the transport and the loop
    is_playing,
    is_paused,
    loop_enabled,           \* LoopController.enabled
    start_fraction,         \* LoopController._bounds, in FractionGrid-ths
    end_fraction,
    loop_crossfade_enabled,
    loop_result,            \* set_start / set_end: << >> before the first
                            \* call, then <<the value returned>>
    \* AudioSession: the reverb settings
    reverb_enabled,
    reverb_wet,             \* in percent
    \* what the last calls returned
    chunk,                  \* get_chunk: its arguments and the samples
    swap_result,            \* maybe_swap_pending: << >> for None, <<index>>
    \* the audio callback: where it stands in _pull_audio, and its locals
    pull,
    \* SamplePlayer: active_clips, where its callback stands and the local
    \* `remaining` of it, and, read by the properties only, what was asked of
    \* start_clip for each clip and the samples of it emitted so far
    sample_player,
    \* _run_pipeline_subprocess: where it stands, the threads of its executor
    \* and the kinds of the messages put on the queue, in order
    pipeline

\* What the operations of the session and of the stem player leave alone, the
\* load apart.
audioVars == <<sample_rate, orig_len, original_stem_data, original_mix,
               sample_player, pipeline>>
\* What no operation changes but the load and the entries and exits of the
\* sections under _pending_lock.
origVars == <<audioVars, lock>>
bufVars == <<current_stem_data, current_mix_data, tempo_rate, pitch_semitones,
             current_missing_stems, total_samples>>
selVars == <<play_all, active_stems>>
liveVars == <<bufVars, selVars>>
slotVars == <<pending_stem_data, pending_mix_data, pending_tempo_rate,
              pending_pitch_semitones, pending_missing_stems,
              pending_total_samples>>
targetVars == <<pending_target_play_all, pending_target_active_stems>>
pendVars == <<slotVars, pending_ready, pending_generation, targetVars>>
planVars == <<plans, render_plan, wpc, processed>>
ctlVars == <<cpc, clocal>>
histVars == <<superseded, kept, sel_fresh, last_request>>
playVars == <<is_playing, is_paused, loop_enabled, start_fraction,
              end_fraction, loop_crossfade_enabled, loop_result>>
fxVars == <<reverb_enabled, reverb_wet>>
outVars == <<chunk, swap_result, pull>>
vars == <<origVars, liveVars, reverb_states, pendVars, planVars, play_index,
          ctlVars, histVars, playVars, fxVars, outVars>>

\* The tempo and pitch of a call of request_tempo_pitch_change.
Request(tempo, pitch) == [tempo |-> tempo, pitch |-> pitch]
\* request_tempo_pitch_change has not been called.
NoRequest == Request(0, 0)

\* A SamplePlayer as constructed.
NoClips == [active_clips |-> << >>, pc |-> "idle", remaining |-> << >>,
            started |-> << >>, emitted |-> << >>]

\* The worker process before _run_pipeline_subprocess is entered.
NoPipeline == [pc |-> "start", skip |-> FALSE, failing |-> FALSE,
               key |-> "none", stems |-> "none", msgs |-> << >>]

\* _pending_lock, held by nobody.
Unlocked == [kind |-> "free", id |-> 0]

\* _pending_lock, held by the worker thread of plan number p.
HeldByWorker(p) == [kind |-> "worker", id |-> p]

\* _pending_lock, held by the audio callback.
HeldByCallback == [kind |-> "callback", id |-> 0]

\* The audio callback between two calls of _pull_audio, before the first.
\* `frames` is the argument of the call in progress, `zeros` the length of the
\* buffer of zeros the last call returned (0: it returned a chunk), `meters`
\* what output_level and clipping hold: "zero" for 0.0 and False, "chunk" for
\* the values computed from the last chunk.
NoPull == [pc |-> "idle", frames |-> 0, path |-> "none", zeros |-> 0, meters |-> "zero"]

\* No chunk has been asked for yet. `sources` are the keys of the buffers
\* that put a segment into the chunk, `dropped` the keys whose reverb the call
\* has reset and deleted.
NoChunk == [start |-> 0, frames |-> 0, data |-> << >>, sources |-> {},
            dropped |-> {}]

\* The control thread's locals, between two of its steps.
NoLocals == [tempo |-> 0, pitch |-> 0, stems |-> {}, mix |-> FALSE,
             base_stems |-> EmptyDict, base_mix |-> NoBuffer,
             tpa |-> FALSE, tas |-> {}, old_total |-> 0, pos |-> 0]

\* ------------------------------------------------------------ buffers

\* The length librosa.effects.time_stretch gives n samples at `tempo` percent:
\* int(round(n / rate)), Python's round taking a half to the even integer.
StretchLen(n, tempo) ==
    LET floor == (n * 100) \div tempo
        twice == 2 * ((n * 100) % tempo)
    IN  IF twice < tempo THEN floor
        ELSE IF twice > tempo THEN floor + 1
        ELSE IF floor % 2 = 0 THEN floor ELSE floor + 1

\* len(buffer), the files' lengths being lens
BufLenIn(lens, b) == IF b.tempo = UnitTempo THEN lens[b.src]
                     ELSE StretchLen(lens[b.src], b.tempo)
BufLen(b) == BufLenIn(orig_len, b)

\* _apply_tempo_pitch on the original of `src`, run by the worker of plan gen.
ApplyTempoPitch(src, tempo, pitch, gen) == Buffer(src, tempo, pitch, gen)

RECURSIVE FoldTotal(_, _)
FoldTotal(sizes, total) ==
    IF sizes = << >> THEN total
    ELSE FoldTotal(Tail(sizes),
                   IF total = 0 THEN Head(sizes) ELSE Min2(total, Head(sizes)))

\* The order in which a dict's values are visited.
DictOrder(d) == CHOOSE s \in Orderings(DOMAIN d) : TRUE

ComputeTotalSamplesIn(lens, stems, mix) ==
    LET order == DictOrder(stems)
        stemLens == [i \in 1..Len(order) |-> BufLenIn(lens, stems[order[i]])]
        candidates == IF mix /= NoBuffer THEN Append(stemLens, BufLenIn(lens, mix))
                      ELSE stemLens
    IN  FoldTotal(candidates, 0)

ComputeTotalSamples(stems, mix) == ComputeTotalSamplesIn(orig_len, stems, mix)

\* ------------------------------------------------------------ reverb

ReverbTargets(pa, active, stems, mix) ==
    IF pa THEN (IF mix /= NoBuffer THEN {MIX} ELSE {})
    ELSE {name \in active : name \in DOMAIN stems}

\* _sync_reverb_states: the keys left in reverb_states
SyncReverbStates(states, pa, active, stems, mix) ==
    states \cap ReverbTargets(pa, active, stems, mix)

\* ------------------------------------------------------------ construction

Init ==
    /\ sample_rate = None
    /\ orig_len = EmptyDict
    /\ original_stem_data = EmptyDict
    /\ original_mix = NoBuffer
    /\ current_stem_data = EmptyDict
    /\ current_mix_data = NoBuffer
    /\ tempo_rate = UnitTempo
    /\ pitch_semitones = ZeroPitch
    /\ current_missing_stems = {}
    /\ total_samples = 0
    /\ play_all = FALSE
    /\ active_stems = {}
    /\ reverb_states = {}
    /\ pending_stem_data = EmptyDict
    /\ pending_mix_data = NoBuffer
    /\ pending_tempo_rate = UnitTempo
    /\ pending_pitch_semitones = ZeroPitch
    /\ pending_missing_stems = {}
    /\ pending_total_samples = 0
    /\ pending_ready = FALSE
    /\ pending_generation = 0
    /\ pending_target_play_all = FALSE
    /\ pending_target_active_stems = {}
    /\ plans = << >>
    /\ render_plan = 0
    /\ wpc = << >>
    /\ processed = << >>
    /\ play_index = 0
    /\ cpc = "idle"
    /\ clocal = NoLocals
    /\ superseded = {}
    /\ kept = << >>
    /\ sel_fresh = FALSE
    /\ last_request = NoRequest
    /\ sample_player = NoClips
    /\ pipeline = NoPipeline
    /\ is_playing = FALSE
    /\ is_paused = FALSE
    /\ loop_enabled = FALSE
    /\ start_fraction = 0
    /\ end_fraction = FractionGrid
    /\ loop_crossfade_enabled = FALSE
    /\ loop_result = << >>
    /\ reverb_enabled = FALSE
    /\ reverb_wet = DefaultWet
    /\ chunk = NoChunk
    /\ swap_result = << >>
    /\ pull = NoPull
    /\ lock = Unlocked

\* What load_audio / load_mix_only leave, given the originals read from disk,
\* lens[k] being the number of samples of the file of k.
LoadedFiles(stemNames, lens) ==
    /\ sample_rate = None
    /\ cpc = "idle"
    /\ sample_rate' = "sr"
    /\ orig_len' = lens
    /\ original_stem_data' = [k \in stemNames |-> Original(k)]
    /\ original_mix' = Original(MIX)
    /\ tempo_rate' = UnitTempo
    /\ pitch_semitones' = ZeroPitch
    /\ current_stem_data' = original_stem_data'
    /\ current_mix_data' = original_mix'
    /\ current_missing_stems' = {}
    /\ total_samples' = ComputeTotalSamplesIn(orig_len', current_stem_data',
                                               current_mix_data')
    /\ active_stems' = stemNames
    /\ play_all' = TRUE
    /\ pending_target_play_all' = TRUE
    /\ pending_target_active_stems' = stemNames
    /\ pending_stem_data' = EmptyDict
    /\ pending_mix_data' = NoBuffer
    /\ pending_total_samples' = 0
    /\ pending_ready' = FALSE
    /\ pending_generation' = 0
    /\ reverb_states' = {}
    /\ play_index' = 0
    /\ UNCHANGED <<pending_tempo_rate, pending_pitch_semitones,
                   pending_missing_stems, planVars, ctlVars, superseded, kept,
                   last_request, lock, sample_player, pipeline>>
    /\ sel_fresh' = FALSE
    /\ is_playing' = FALSE
    /\ is_paused' = FALSE
    /\ loop_enabled' = FALSE
    /\ start_fraction' = 0
    /\ end_fraction' = FractionGrid
    /\ loop_crossfade_enabled' = FALSE
    /\ UNCHANGED loop_result
    /\ reverb_enabled' = FALSE
    /\ reverb_wet' = DefaultWet
    /\ UNCHANGED outVars

\* The files all have len samples.
Loaded(stemNames, len) ==
    LoadedFiles(stemNames, [k \in stemNames \cup {MIX} |-> len])

LoadAudio == Loaded(StemNames, MaxLen)

LoadMixOnly == Loaded({}, MaxLen)

\* ------------------------------------------------------------ render plans

RenderPlan(tempo, pitch, include_mix, mark_missing, tpa, tas, requested, remaining, completed, mix_data, mix_pending) ==
    [tempo_rate |-> tempo, pitch_semitones |-> pitch,
     include_mix |-> include_mix, mark_missing |-> mark_missing,
     target_play_all |-> tpa, target_active_stems |-> tas,
     requested_stems |-> requested, remaining_stems |-> remaining,
     completed_cache |-> completed, mix_data |-> mix_data,
     mix_pending |-> mix_pending, cancelled |-> FALSE, current_task |-> None]

total_items(plan) ==
    Cardinality(plan.requested_stems) + (IF plan.include_mix THEN 1 ELSE 0)

\* A variant of completed_items that does not count the mix.
completed_stems(plan) ==
    Cardinality(plan.requested_stems \cap DOMAIN plan.completed_cache)

completed_items(plan) ==
    Cardinality(plan.requested_stems \cap DOMAIN plan.completed_cache)
      + (IF plan.include_mix /\ plan.mix_data /= NoBuffer THEN 1 ELSE 0)

\* The buffers a plan holds as results.
PlanResults(plan) ==
    Values(plan.completed_cache)
      \cup (IF plan.mix_data /= NoBuffer THEN {plan.mix_data} ELSE {})

\* _pending_condition.notify_all(): every waiting worker goes on to take the
\* lock and look at its plan again.
NotifyAll(w) == [i \in DOMAIN w |-> IF w[i] = "wait" THEN "pick" ELSE w[i]]

\* The test of _queue_build for extending the plan in flight.
CompatiblePlan(tempo, pitch) ==
    /\ render_plan /= 0
    /\ ~plans[render_plan].cancelled
    /\ plans[render_plan].tempo_rate = tempo
    /\ plans[render_plan].pitch_semitones = pitch

\* The plan in flight, retargeted by a compatible request.
Retargeted(plan, stems_to_build, include_mix, mark_missing, tpa, tas, added) ==
    [plan EXCEPT
        !.target_play_all = tpa,
        !.target_active_stems = tas,
        !.include_mix = include_mix,
        !.mark_missing = mark_missing,
        !.requested_stems = stems_to_build,
        !.remaining_stems = FilterSeq(plan.remaining_stems, stems_to_build)
                              \o added,
        !.mix_pending = IF include_mix THEN plan.mix_data = NoBuffer ELSE FALSE]

\* A variant of CancelOld that leaves the replaced plan as it is.
KeepOld(ps, rp) == ps

\* _queue_build, where it starts a new plan: the plan in flight, if any, is
\* marked cancelled.
CancelOld(ps, rp) == IF rp = 0 THEN ps ELSE [ps EXCEPT ![rp].cancelled = TRUE]

\* _queue_build, from its first line to its return.
QueueBuild(tempo, pitch, stems_in, mix_in, base_stems, base_mix, mark_missing, tpa, tas) ==
    LET stems_to_build == {name \in stems_in : name \in DOMAIN original_stem_data}
        include_mix == mix_in /\ original_mix /= NoBuffer
    IN
    IF sample_rate = None \/ (stems_to_build = {} /\ ~include_mix)
    THEN UNCHANGED <<pendVars, planVars, superseded, kept, last_request>>
    ELSE
      /\ pending_generation' = pending_generation + 1
      /\ UNCHANGED <<pending_stem_data, pending_mix_data, pending_missing_stems,
                     pending_total_samples>>
      /\ pending_tempo_rate' = tempo
      /\ pending_pitch_semitones' = pitch
      /\ pending_target_play_all' = tpa
      /\ pending_target_active_stems' = tas
      /\ LET cur == plans[render_plan]
             compatible == CompatiblePlan(tempo, pitch)
             dropping_current ==
                 /\ cur.current_task /= None
                 /\ cur.current_task /= MIX
                 /\ cur.current_task \notin stems_to_build
             switching_to_mix_only ==
                 include_mix /\ stems_to_build = {} /\ ~cur.include_mix
             carry == compatible /\ (dropping_current \/ switching_to_mix_only)
         IN
         IF compatible /\ ~carry
         THEN
           \* the plan in flight is mutated in place
           LET remaining == FilterSeq(cur.remaining_stems, stems_to_build)
               known == (DOMAIN cur.completed_cache) \cup SeqToSet(remaining)
           IN  /\ \E added \in Orderings(stems_to_build \ known) :
                     plans' = [plans EXCEPT ![render_plan] =
                                  Retargeted(cur, stems_to_build, include_mix,
                                             mark_missing, tpa, tas, added)]
               /\ wpc' = NotifyAll(wpc)
               /\ UNCHANGED <<render_plan, processed, pending_ready,
                              superseded, kept, last_request>>
         ELSE
           \* the plan in flight, if any, is cancelled and a new one started
           LET base_completed ==
                   IF carry THEN DictUpdate(base_stems, cur.completed_cache)
                   ELSE base_stems
               base_mix_value ==
                   IF carry /\ cur.mix_data /= NoBuffer THEN cur.mix_data
                   ELSE base_mix
               old == CancelOld(plans, render_plan)
           IN  /\ \E remaining \in
                        Orderings(stems_to_build \ DOMAIN base_completed) :
                     plans' = Append(old,
                        RenderPlan(tempo, pitch, include_mix, mark_missing,
                                   tpa, tas, stems_to_build, remaining,
                                   base_completed, base_mix_value,
                                   include_mix /\ base_mix_value = NoBuffer))
               /\ render_plan' = Len(plans) + 1
               /\ pending_ready' = FALSE
               /\ wpc' = Append(wpc, "pick")
               /\ processed' = Append(processed, NoBuffer)
               /\ UNCHANGED last_request
               /\ superseded' = IF render_plan = 0 THEN superseded
                                ELSE superseded \cup {render_plan}
               /\ kept' = Append(IF render_plan = 0 THEN kept
                                 ELSE [kept EXCEPT ![render_plan] =
                                          PlanResults(cur)],
                                 {})

\* ------------------------------------------------------------ render worker

PlanIds == 1..Len(plans)

\* A variant of the worker's tests in which it never gives up.
NeverAbandoned(p) == FALSE

\* The worker's test, under the lock, that its plan is no longer the one to run.
Abandoned(p) == plans[p].cancelled \/ render_plan /= p

\* The workers' locals: those of a worker that has returned are gone.
Returned(p, w) == IF w[p] = "done" THEN [processed EXCEPT ![p] = NoBuffer]
                  ELSE processed

\* A variant of FinalizeRenderPlan that leaves the plan in _render_plan.
FinalizeKeepsPlan(p, plan) ==
    LET new_stems == Restrict(plan.completed_cache, plan.requested_stems)
        new_mix == IF plan.include_mix THEN plan.mix_data ELSE NoBuffer
        missing == IF plan.mark_missing
                   THEN plan.requested_stems \ DOMAIN new_stems
                   ELSE {}
    IN  /\ pending_stem_data' = new_stems
        /\ pending_mix_data' = new_mix
        /\ pending_tempo_rate' = plan.tempo_rate
        /\ pending_pitch_semitones' = plan.pitch_semitones
        /\ pending_total_samples' = ComputeTotalSamples(new_stems, new_mix)
        /\ pending_missing_stems' = missing
        /\ pending_target_play_all' = plan.target_play_all
        /\ pending_target_active_stems' = plan.target_active_stems
        /\ pending_ready' = TRUE
        /\ plans' = [plans EXCEPT ![p] = [plan EXCEPT !.cancelled = TRUE]]
        /\ render_plan' = render_plan

\* _finalize_render_plan of plan number p, whose fields are now `plan`.
FinalizeRenderPlan(p, plan) ==
    LET new_stems == Restrict(plan.completed_cache, plan.requested_stems)
        new_mix == IF plan.include_mix THEN plan.mix_data ELSE NoBuffer
        missing == IF plan.mark_missing
                   THEN plan.requested_stems \ DOMAIN new_stems
                   ELSE {}
    IN  /\ pending_stem_data' = new_stems
        /\ pending_mix_data' = new_mix
        /\ pending_tempo_rate' = plan.tempo_rate
        /\ pending_pitch_semitones' = plan.pitch_semitones
        /\ pending_total_samples' = ComputeTotalSamples(new_stems, new_mix)
        /\ pending_missing_stems' = missing
        /\ pending_target_play_all' = plan.target_play_all
        /\ pending_target_active_stems' = plan.target_active_stems
        /\ pending_ready' = TRUE
        /\ plans' = [plans EXCEPT ![p] = [plan EXCEPT !.cancelled = TRUE]]
        /\ render_plan' = 0

\* _run_render_plan, the body of the first `with self._pending_condition:` of
\* the loop: give up, take the next task, publish, or wait.
PickSection(p) ==
    /\ wpc[p] = "pick"
    /\ LET plan == plans[p] IN
       IF Abandoned(p)
       THEN /\ wpc' = [wpc EXCEPT ![p] = "done"]
            /\ UNCHANGED <<plans, render_plan, pendVars>>
       ELSE IF plan.remaining_stems /= << >>
       THEN /\ plans' = [plans EXCEPT ![p] =
                  [plan EXCEPT !.remaining_stems = Tail(plan.remaining_stems),
                               !.current_task = Head(plan.remaining_stems)]]
            /\ wpc' = [wpc EXCEPT ![p] = "synth"]
            /\ UNCHANGED <<render_plan, pendVars>>
       ELSE IF plan.mix_pending /\ plan.include_mix
       THEN /\ plans' = [plans EXCEPT ![p] =
                  [plan EXCEPT !.current_task = MIX, !.mix_pending = FALSE]]
            /\ wpc' = [wpc EXCEPT ![p] = "synth"]
            /\ UNCHANGED <<render_plan, pendVars>>
       ELSE IF completed_items(plan) >= total_items(plan) \/ total_items(plan) = 0
       THEN /\ FinalizeRenderPlan(p, plan)
            /\ wpc' = [wpc EXCEPT ![p] = "done"]
            /\ UNCHANGED pending_generation
       ELSE /\ plans' = [plans EXCEPT ![p] = [plan EXCEPT !.current_task = None]]
            /\ wpc' = [wpc EXCEPT ![p] = "wait"]
            /\ UNCHANGED <<render_plan, pendVars>>
    /\ processed' = Returned(p, wpc')
    /\ UNCHANGED <<audioVars, liveVars, reverb_states, play_index, ctlVars,
                   histVars>>
    /\ UNCHANGED <<playVars, fxVars, outVars>>

\* _run_render_plan, the first locked section of the loop, entered and left
\* in one step.
RunPick(p) == PickSection(p) /\ UNCHANGED lock

\* _run_render_plan between the locked sections: the synthesis of the task,
\* which returns.
RunSynth(p) ==
    /\ wpc[p] = "synth"
    /\ LET plan == plans[p]
           task == plan.current_task
       IN  IF sample_rate = None
           THEN /\ wpc' = [wpc EXCEPT ![p] = "done"]
                /\ processed' = [processed EXCEPT ![p] = NoBuffer]
           ELSE /\ wpc' = [wpc EXCEPT ![p] = "store"]
                /\ processed' = [processed EXCEPT ![p] =
                      IF task = MIX
                      THEN (IF original_mix /= NoBuffer
                            THEN ApplyTempoPitch(MIX, plan.tempo_rate,
                                                 plan.pitch_semitones, p)
                            ELSE NoBuffer)
                      ELSE (IF task \in DOMAIN original_stem_data
                            THEN ApplyTempoPitch(task, plan.tempo_rate,
                                                 plan.pitch_semitones, p)
                            ELSE NoBuffer)]
    /\ UNCHANGED <<origVars, liveVars, reverb_states, pendVars, plans,
                   render_plan, play_index, ctlVars, histVars>>
    /\ UNCHANGED <<playVars, fxVars, outVars>>

\* The synthesis of the task, when librosa raises: nothing in _run_render_plan
\* catches it, and the worker thread ends.
RunSynthRaise(p) ==
    /\ wpc[p] = "synth"
    /\ sample_rate /= None
    /\ plans[p].tempo_rate /= UnitTempo \/ plans[p].pitch_semitones /= ZeroPitch
    /\ wpc' = [wpc EXCEPT ![p] = "dead"]
    /\ UNCHANGED <<origVars, liveVars, reverb_states, pendVars, plans,
                   render_plan, processed, play_index, ctlVars, histVars>>
    /\ UNCHANGED <<playVars, fxVars, outVars>>

\* A variant of the test after a unit of synthesis in which the result is
\* always kept.
StoreNeverAbandoned(p) == FALSE

\* The worker's test after a unit of synthesis.
StoreAbandoned(p) == plans[p].cancelled \/ render_plan /= p

\* _run_render_plan, the body of the second `with self._pending_condition:`
\* of the loop: keep the result.
StoreSection(p) ==
    /\ wpc[p] = "store"
    /\ IF StoreAbandoned(p)
       THEN /\ wpc' = [wpc EXCEPT ![p] = "done"]
            /\ UNCHANGED <<plans, render_plan, pendVars>>
       ELSE LET plan == plans[p]
                task == plan.current_task
                stored ==
                  IF task = MIX
                  THEN [plan EXCEPT !.mix_data = processed[p],
                                    !.current_task = None]
                  ELSE IF task /= None /\ processed[p] /= NoBuffer
                  THEN [plan EXCEPT !.completed_cache =
                                        DictPut(@, task, processed[p]),
                                    !.current_task = None]
                  ELSE [plan EXCEPT !.current_task = None]
            IN  IF completed_items(stored) >= total_items(stored)
                THEN /\ FinalizeRenderPlan(p, stored)
                     /\ wpc' = [wpc EXCEPT ![p] = "done"]
                     /\ UNCHANGED pending_generation
                ELSE /\ plans' = [plans EXCEPT ![p] = stored]
                     /\ wpc' = [NotifyAll(wpc) EXCEPT ![p] = "pick"]
                     /\ UNCHANGED <<render_plan, pendVars>>
    /\ processed' = Returned(p, wpc')
    /\ UNCHANGED <<audioVars, liveVars, reverb_states, play_index, ctlVars,
                   histVars>>
    /\ UNCHANGED <<playVars, fxVars, outVars>>

\* _run_render_plan, the second locked section of the loop, entered and left
\* in one step.
RunStore(p) == StoreSection(p) /\ UNCHANGED lock

\* ------------------------------------------------------------ the swap

\* A variant of RebasedIndex without the clamp.
UnclampedIndex(new_index, new_total) == new_index

\* maybe_swap_pending: new_index = min(new_index, new_total_samples - 1)
RebasedIndex(new_index, new_total) == Min2(new_index, new_total - 1)

\* The index maybe_swap_pending returns for the position `pos` (in samples):
\* int(progress * new_duration * sr), then the clamp to the last sample.  The
\* floating-point product of an exact integer may fall just below it, and
\* int() then gives one less.

SwapIndices(old_total, new_total, pos) ==
    LET clamped == Max2(0, Min2(pos, old_total))
        exact == clamped * new_total
        floor == exact \div old_total
        ints == {floor} \cup (IF exact % old_total = 0 /\ floor >= 1
                              THEN {floor - 1} ELSE {})
    IN  {RebasedIndex(i, new_total) : i \in ints}

\* A variant of NothingPending that never holds.
AlwaysPending == FALSE

\* maybe_swap_pending: the tests under which it returns None at once.
NothingPending == ~pending_ready \/ sample_rate = None

\* A variant of ReadyAfterSwap that leaves the flag up.
StillReady == TRUE

\* maybe_swap_pending: self.pending_ready = False
ReadyAfterSwap == FALSE

\* maybe_swap_pending with nothing pending: it returns None and changes
\* nothing.
NoSwap ==
    /\ NothingPending
    /\ swap_result' = << >>
    /\ UNCHANGED <<audioVars, liveVars, reverb_states, pendVars, planVars,
                   play_index, ctlVars, histVars, playVars, fxVars, chunk>>

\* apply_pending_tempo_pitch with nothing pending (and no callback in
\* _pull_audio).
SwapNotReady == NoSwap /\ UNCHANGED <<pull, lock>>

\* maybe_swap_pending(play_index / sample_rate) as the audio callback and
\* apply_pending_tempo_pitch call it, with `play_index = new_index` on a
\* result that is not None, when something is pending.
SwapPending ==
    /\ ~NothingPending
    /\ current_stem_data' = pending_stem_data
    /\ current_mix_data' = pending_mix_data
    /\ tempo_rate' = pending_tempo_rate
    /\ pitch_semitones' = pending_pitch_semitones
    /\ total_samples' = pending_total_samples
    /\ current_missing_stems' = pending_missing_stems
    /\ play_all' = pending_target_play_all
    /\ active_stems' = pending_target_active_stems
    /\ pending_stem_data' = EmptyDict
    /\ pending_mix_data' = NoBuffer
    /\ pending_missing_stems' = {}
    /\ pending_total_samples' = 0
    /\ pending_ready' = ReadyAfterSwap
    /\ reverb_states' = SyncReverbStates(reverb_states, play_all', active_stems',
                                         current_stem_data', current_mix_data')
    /\ IF total_samples <= 0 \/ pending_total_samples <= 0
       THEN play_index' = play_index /\ swap_result' = << >>
       ELSE /\ play_index' \in SwapIndices(total_samples, pending_total_samples,
                                           play_index)
            /\ swap_result' = <<play_index'>>
    /\ UNCHANGED <<playVars, fxVars, chunk>>
    /\ sel_fresh' = (sel_fresh /\ selVars' = selVars)
    /\ UNCHANGED <<audioVars, pending_tempo_rate, pending_pitch_semitones,
                   pending_generation, targetVars, planVars, ctlVars,
                   superseded, kept, last_request>>

\* apply_pending_tempo_pitch with something pending (and no callback in
\* _pull_audio).
MaybeSwapPending == SwapPending /\ UNCHANGED <<pull, lock>>

\* ------------------------------------------------------------ control thread

Clamp(x, lo, hi) == Max2(lo, Min2(x, hi))

\* The control thread is between two calls, and the generation counter leaves
\* room for one more call.
CanCall == cpc = "idle" /\ pending_generation < MaxGen

\* set_selection(play_all, active_stems), up to its call of
\* ensure_selection_ready.
SetSelection(pa, names) ==
    /\ CanCall
    /\ LET given == {name \in names : name \in DOMAIN original_stem_data}
           stems == IF given = {} /\ DOMAIN original_stem_data /= {}
                    THEN DOMAIN original_stem_data ELSE given
       IN  /\ play_all' = pa
           /\ active_stems' = stems
           /\ reverb_states' = SyncReverbStates(reverb_states, pa, stems,
                                      current_stem_data, current_mix_data)
    /\ sel_fresh' = TRUE
    /\ cpc' = "ensure"
    /\ UNCHANGED <<origVars, bufVars, pendVars, planVars, play_index, clocal,
                   superseded, kept, last_request>>
    /\ UNCHANGED <<playVars, fxVars, outVars>>

\* ensure_selection_ready: what the selection needs and the live
\* configuration lacks.
EnsureSelectionReady ==
    /\ cpc = "ensure"
    /\ LET include_mix == play_all /\ original_mix /= NoBuffer /\ orig_len[MIX] > 0
           required == IF play_all THEN {}
                       ELSE {name \in active_stems :
                                name \in DOMAIN original_stem_data}
           missing_stems == required \ DOMAIN current_stem_data
           mix_missing == include_mix /\ current_mix_data = NoBuffer
       IN  IF sample_rate = None \/ (missing_stems = {} /\ ~mix_missing)
           THEN cpc' = "idle" /\ clocal' = NoLocals
           ELSE /\ cpc' = "ensure_args"
                /\ clocal' = [NoLocals EXCEPT !.stems = missing_stems,
                                              !.mix = mix_missing]
    /\ UNCHANGED <<origVars, liveVars, reverb_states, pendVars, planVars,
                   play_index, histVars>>
    /\ UNCHANGED <<playVars, fxVars, outVars>>

\* ensure_selection_ready: the arguments of its call of _queue_build.
EnsureArgs ==
    /\ cpc = "ensure_args"
    /\ cpc' = "ensure_queue"
    /\ clocal' = [clocal EXCEPT !.tempo = tempo_rate,
                                !.pitch = pitch_semitones,
                                !.base_stems = current_stem_data,
                                !.base_mix = current_mix_data,
                                !.tpa = play_all,
                                !.tas = active_stems]
    /\ UNCHANGED <<origVars, liveVars, reverb_states, pendVars, planVars,
                   play_index, histVars>>
    /\ UNCHANGED <<playVars, fxVars, outVars>>

\* ensure_selection_ready: _queue_build.
EnsureQueue ==
    /\ cpc = "ensure_queue"
    /\ QueueBuild(clocal.tempo, clocal.pitch, clocal.stems, clocal.mix,
                  clocal.base_stems, clocal.base_mix, TRUE,
                  clocal.tpa, clocal.tas)
    /\ cpc' = "idle"
    /\ clocal' = NoLocals
    /\ UNCHANGED <<origVars, liveVars, reverb_states, play_index, sel_fresh>>
    /\ UNCHANGED <<playVars, fxVars, outVars>>

\* StemAudioPlayer.set_tempo_rate / set_pitch_semitones /
\* set_tempo_and_pitch: the arguments of request_tempo_pitch_change.
SetTempoPitch(kind, rate, semitones) ==
    /\ CanCall
    /\ sample_rate /= None
    /\ cpc' = "request"
    /\ clocal' = [NoLocals EXCEPT
          !.tempo = IF kind = "pitch" THEN tempo_rate
                    ELSE Clamp(rate, MinTempo, MaxTempo),
          !.pitch = IF kind = "tempo" THEN pitch_semitones
                    ELSE Clamp(semitones, MinPitch, MaxPitch),
          !.stems = active_stems,
          !.mix = play_all]
    /\ last_request' = Request(clocal'.tempo, clocal'.pitch)
    /\ UNCHANGED <<origVars, liveVars, reverb_states, pendVars, planVars,
                   play_index, superseded, kept, sel_fresh>>
    /\ UNCHANGED <<playVars, fxVars, outVars>>

\* request_tempo_pitch_change, up to its call of _queue_build.
RequestTempoPitchChange ==
    /\ cpc = "request"
    /\ LET new_tempo_rate == Clamp(clocal.tempo, MinTempo, MaxTempo)
           new_pitch_semitones == Clamp(clocal.pitch, MinPitch, MaxPitch)
           include_mix == clocal.mix
           wanted == {name \in clocal.stems : name \in DOMAIN original_stem_data}
           stems_to_process == IF include_mix /\ play_all THEN {} ELSE wanted
       IN  IF \/ sample_rate = None
              \/ (DOMAIN original_stem_data = {} /\ original_mix = NoBuffer)
              \/ (new_tempo_rate = tempo_rate
                    /\ new_pitch_semitones = pitch_semitones)
           THEN cpc' = "idle" /\ clocal' = NoLocals
           ELSE /\ cpc' = "request_queue"
                /\ clocal' = [NoLocals EXCEPT !.tempo = new_tempo_rate,
                                              !.pitch = new_pitch_semitones,
                                              !.stems = stems_to_process,
                                              !.mix = include_mix,
                                              !.tpa = play_all,
                                              !.tas = active_stems]
    /\ UNCHANGED <<origVars, liveVars, reverb_states, pendVars, planVars,
                   play_index, histVars>>
    /\ UNCHANGED <<playVars, fxVars, outVars>>

\* request_tempo_pitch_change: _queue_build.
RequestQueue ==
    /\ cpc = "request_queue"
    /\ QueueBuild(clocal.tempo, clocal.pitch, clocal.stems, clocal.mix,
                  EmptyDict, NoBuffer, TRUE, clocal.tpa, clocal.tas)
    /\ cpc' = "idle"
    /\ clocal' = NoLocals
    /\ UNCHANGED <<origVars, liveVars, reverb_states, play_index, sel_fresh>>
    /\ UNCHANGED <<playVars, fxVars, outVars>>

\* cancel_pending_render.
CancelPendingRender ==
    /\ CanCall
    /\ pending_generation' = pending_generation + 1
    /\ pending_ready' = FALSE
    /\ pending_stem_data' = EmptyDict
    /\ pending_mix_data' = NoBuffer
    /\ pending_missing_stems' = {}
    /\ pending_total_samples' = 0
    /\ pending_tempo_rate' = tempo_rate
    /\ pending_pitch_semitones' = pitch_semitones
    /\ pending_target_play_all' = play_all
    /\ pending_target_active_stems' = active_stems
    /\ plans' = IF render_plan = 0 THEN plans
                ELSE [plans EXCEPT ![render_plan].cancelled = TRUE]
    /\ render_plan' = 0
    /\ wpc' = NotifyAll(wpc)
    /\ UNCHANGED <<origVars, liveVars, reverb_states, processed, play_index,
                   ctlVars, histVars>>
    /\ UNCHANGED <<playVars, fxVars, outVars>>

\* ------------------------------------------------------------ reset

ResetFrame == UNCHANGED <<origVars, planVars, superseded, kept, last_request, playVars,
                         fxVars, outVars>>

\* StemAudioPlayer.reset_to_original_mix, and AudioSession's up to its first
\* write: the position and the old total are read.
ResetToOriginalMix ==
    /\ CanCall
    /\ sample_rate /= None
    /\ cpc' = "reset_tempo"
    /\ clocal' = [NoLocals EXCEPT !.pos = play_index,
                                  !.old_total = total_samples]
    /\ sel_fresh' = FALSE
    /\ ResetFrame
    /\ UNCHANGED <<liveVars, reverb_states, pendVars, play_index>>

\* self.tempo_rate = 1.0
ResetTempo ==
    /\ cpc = "reset_tempo"
    /\ tempo_rate' = UnitTempo
    /\ cpc' = "reset_pitch"
    /\ ResetFrame /\ UNCHANGED sel_fresh
    /\ UNCHANGED <<current_stem_data, current_mix_data, pitch_semitones,
                   current_missing_stems, total_samples, selVars,
                   reverb_states, pendVars, play_index, clocal>>

\* self.pitch_semitones = 0.0
ResetPitch ==
    /\ cpc = "reset_pitch"
    /\ pitch_semitones' = ZeroPitch
    /\ cpc' = "reset_stems"
    /\ ResetFrame /\ UNCHANGED sel_fresh
    /\ UNCHANGED <<current_stem_data, current_mix_data, tempo_rate,
                   current_missing_stems, total_samples, selVars,
                   reverb_states, pendVars, play_index, clocal>>

\* self.current_stem_data = dict(self.original_stem_data)
ResetStems ==
    /\ cpc = "reset_stems"
    /\ current_stem_data' = original_stem_data
    /\ cpc' = "reset_mix"
    /\ ResetFrame /\ UNCHANGED sel_fresh
    /\ UNCHANGED <<current_mix_data, tempo_rate, pitch_semitones,
                   current_missing_stems, total_samples, selVars,
                   reverb_states, pendVars, play_index, clocal>>

\* self.current_mix_data = self.original_mix
ResetMix ==
    /\ cpc = "reset_mix"
    /\ current_mix_data' = original_mix
    /\ cpc' = "reset_missing"
    /\ ResetFrame /\ UNCHANGED sel_fresh
    /\ UNCHANGED <<current_stem_data, tempo_rate, pitch_semitones,
                   current_missing_stems, total_samples, selVars,
                   reverb_states, pendVars, play_index, clocal>>

\* self.current_missing_stems = set()
ResetMissing ==
    /\ cpc = "reset_missing"
    /\ current_missing_stems' = {}
    /\ cpc' = "reset_total"
    /\ ResetFrame /\ UNCHANGED sel_fresh
    /\ UNCHANGED <<current_stem_data, current_mix_data, tempo_rate,
                   pitch_semitones, total_samples, selVars, reverb_states,
                   pendVars, play_index, clocal>>

\* self.total_samples = self._compute_total_samples(...)
ResetTotal ==
    /\ cpc = "reset_total"
    /\ total_samples' = ComputeTotalSamples(current_stem_data, current_mix_data)
    /\ cpc' = "reset_play_all"
    /\ ResetFrame /\ UNCHANGED sel_fresh
    /\ UNCHANGED <<current_stem_data, current_mix_data, tempo_rate,
                   pitch_semitones, current_missing_stems, selVars,
                   reverb_states, pendVars, play_index, clocal>>

\* self.play_all = True
ResetPlayAll ==
    /\ cpc = "reset_play_all"
    /\ play_all' = TRUE
    /\ cpc' = "reset_active"
    /\ ResetFrame /\ UNCHANGED sel_fresh
    /\ UNCHANGED <<bufVars, active_stems, reverb_states, pendVars, play_index,
                   clocal>>

\* self.active_stems = set(self.original_stem_data.keys())
ResetActive ==
    /\ cpc = "reset_active"
    /\ active_stems' = DOMAIN original_stem_data
    /\ cpc' = "reset_target"
    /\ ResetFrame /\ UNCHANGED sel_fresh
    /\ UNCHANGED <<bufVars, play_all, reverb_states, pendVars, play_index,
                   clocal>>

\* self.pending_target_play_all = True; self.pending_target_active_stems =
\* set(self.active_stems): written before the lock is taken
ResetTarget ==
    /\ cpc = "reset_target"
    /\ pending_target_play_all' = TRUE
    /\ pending_target_active_stems' = active_stems
    /\ cpc' = "reset_locked"
    /\ ResetFrame /\ UNCHANGED sel_fresh
    /\ UNCHANGED <<liveVars, reverb_states, slotVars, pending_ready,
                   pending_generation, play_index, clocal>>

\* with self._pending_lock: the pending slot is cleared
ResetLocked ==
    /\ cpc = "reset_locked"
    /\ pending_generation' = pending_generation + 1
    /\ pending_ready' = FALSE
    /\ pending_stem_data' = EmptyDict
    /\ pending_mix_data' = NoBuffer
    /\ pending_missing_stems' = {}
    /\ pending_total_samples' = 0
    /\ pending_tempo_rate' = tempo_rate
    /\ pending_pitch_semitones' = pitch_semitones
    /\ pending_target_play_all' = play_all
    /\ pending_target_active_stems' = active_stems
    /\ cpc' = "reset_return"
    /\ ResetFrame /\ UNCHANGED sel_fresh
    /\ UNCHANGED <<liveVars, reverb_states, play_index, clocal>>

\* The index reset_to_original_mix returns for the position `pos`.
ResetIndices(old_total, new_total, pos) ==
    IF old_total <= 0 \/ new_total <= 0 THEN {0}
    ELSE SwapIndices(old_total, new_total, pos)

\* _sync_reverb_states(reset=True), the returned index, and the player's
\* play_index = new_index
ResetReturn ==
    /\ cpc = "reset_return"
    /\ reverb_states' = SyncReverbStates(reverb_states, play_all, active_stems,
                                         current_stem_data, current_mix_data)
    /\ play_index' \in ResetIndices(clocal.old_total, total_samples, clocal.pos)
    /\ cpc' = "idle"
    /\ clocal' = NoLocals
    /\ ResetFrame /\ UNCHANGED sel_fresh
    /\ UNCHANGED <<liveVars, pendVars>>

\* ------------------------------------------------------------ get_chunk

\* Sample i (from 0) of a buffer: the mix alternates between +1.0 and -1.0,
\* every stem stays at +1.0.
Sample(b, i) == IF b.src = MIX THEN (IF i % 2 = 0 THEN FullScale ELSE 0 - FullScale) ELSE FullScale

\* np.clip(x, -1.0, 1.0)
Clip(x) == Max2(0 - FullScale, Min2(x, FullScale))

\* len(data[start:start + n])
SegLen(b, start, n) == Max2(0, Min2(n, BufLen(b) - start))

\* A variant of ChunkFrames that never shortens the chunk.
FullFrames(start, frames) == frames

\* get_chunk: frames = min(frames, self.total_samples - start)
ChunkFrames(start, frames) == Min2(frames, total_samples - start)

\* get_chunk: the buffers of the selection that put a segment into the chunk.
Selected(start, n) ==
    IF play_all /\ current_mix_data /= NoBuffer
    THEN (IF SegLen(current_mix_data, start, n) > 0
          THEN {current_mix_data} ELSE {})
    ELSE {current_stem_data[k] :
            k \in {x \in active_stems \cap DOMAIN current_stem_data :
                      SegLen(current_stem_data[x], start, n) > 0}}

\* A variant of Fallback that never falls back to the mix.
NoFallback(played, start, n) == {}

\* get_chunk: the mix, when nothing of the selection was played.
Fallback(played, start, n) ==
    IF played = {} /\ current_mix_data /= NoBuffer
          /\ SegLen(current_mix_data, start, n) > 0
    THEN {current_mix_data} ELSE {}

\* dry_mix[i - 1]: the sum of the segments of the buffers at place i.
RECURSIVE DrySum(_, _, _, _)
DrySum(bufs, start, n, i) ==
    IF bufs = {} THEN 0
    ELSE LET b == CHOOSE x \in bufs : TRUE
             v == IF i > SegLen(b, start, n) THEN 0
                  ELSE Sample(b, start + i - 1)
         IN  v + DrySum(bufs \ {b}, start, n, i)

\* SimpleReverb.process on a segment shorter than the shortest delay line
\* (0.0297 s; the stream's block is 1024 frames): a reverb made for this call
\* has only zeros in its delay lines and puts out zeros, one that has run
\* before puts out `level`.
ReverbOut(b, states, level) == IF b.src \in states THEN level ELSE 0

\* wet_mix[i - 1]: the sum of the reverbs' outputs at place i, `states`
\* being the reverbs _sync_reverb_states has left.
RECURSIVE WetSum(_, _, _, _, _, _)
WetSum(bufs, start, n, i, states, level) ==
    IF bufs = {} THEN 0
    ELSE LET b == CHOOSE x \in bufs : TRUE
             v == IF i > SegLen(b, start, n) THEN 0
                  ELSE ReverbOut(b, states, level)
         IN  v + WetSum(bufs \ {b}, start, n, i, states, level)

\* wet_amount, in percent
WetAmount == IF reverb_enabled THEN Clamp(reverb_wet, 0, 100) ELSE 0

\* The samples get_chunk(start, frames) returns, the reverbs putting out
\* `level`.
ChunkData(start, frames, level) ==
    IF sample_rate = None \/ total_samples <= 0 \/ start >= total_samples
    THEN [i \in 1..frames |-> 0]
    ELSE LET n == ChunkFrames(start, frames)
             played == Selected(start, n)
             bufs == played \cup Fallback(played, start, n)
             synced == SyncReverbStates(reverb_states, play_all, active_stems,
                                        current_stem_data, current_mix_data)
             dry == [i \in 1..n |-> DrySum(bufs, start, n, i)]
             wet == [i \in 1..n |-> WetSum(bufs, start, n, i, synced, level)]
         IN  IF WetAmount > 0
             THEN [i \in 1..n |->
                     Clip((dry[i] * (100 - WetAmount) + wet[i] * WetAmount)
                            \div 100)]
             ELSE dry

\* The keys of reverb_states after get_chunk(start, frames).
ChunkReverbs(start, frames) ==
    IF sample_rate = None \/ total_samples <= 0 \/ start >= total_samples
    THEN reverb_states
    ELSE LET n == ChunkFrames(start, frames)
             played == Selected(start, n)
             bufs == played \cup Fallback(played, start, n)
             synced == SyncReverbStates(reverb_states, play_all, active_stems,
                                        current_stem_data, current_mix_data)
         IN  IF WetAmount > 0 THEN synced \cup {b.src : b \in bufs}
             ELSE synced

\* get_chunk: the keys of the buffers that put a segment into the chunk.
ChunkSources(start, frames) ==
    IF sample_rate = None \/ total_samples <= 0 \/ start >= total_samples
    THEN {}
    ELSE LET n == ChunkFrames(start, frames)
             played == Selected(start, n)
         IN  {b.src : b \in played \cup Fallback(played, start, n)}

\* get_chunk: the keys _sync_reverb_states resets and deletes.
ChunkDropped(start, frames) ==
    IF sample_rate = None \/ total_samples <= 0 \/ start >= total_samples
    THEN {}
    ELSE reverb_states \ SyncReverbStates(reverb_states, play_all, active_stems,
                                          current_stem_data, current_mix_data)

\* get_chunk(start, frames)
GetChunk(start, frames) ==
    /\ \E level \in ReverbLevels :
          chunk' = [start |-> start, frames |-> frames,
                    data |-> ChunkData(start, frames, level),
                    sources |-> ChunkSources(start, frames),
                    dropped |-> ChunkDropped(start, frames)]
    /\ reverb_states' = ChunkReverbs(start, frames)
    /\ UNCHANGED <<origVars, liveVars, pendVars, planVars, play_index, ctlVars,
                   histVars, playVars, fxVars, swap_result, pull>>

\* ------------------------------------------------------------ StemAudioPlayer

\* The session's state, which the player's own operations leave alone.
SessionFrame == UNCHANGED <<origVars, liveVars, reverb_states, pendVars, planVars, histVars, fxVars, chunk, swap_result>>

LoopVars == <<loop_enabled, start_fraction, end_fraction, loop_crossfade_enabled, loop_result>>

\* play(), once a session is loaded: self.is_playing = True
Play ==
    /\ cpc = "idle"
    /\ sample_rate /= None
    /\ is_playing' = TRUE
    /\ cpc' = "play_paused"
    /\ SessionFrame
    /\ UNCHANGED <<is_paused, LoopVars, play_index, clocal, pull>>

\* play(): self.is_paused = False
PlayPaused ==
    /\ cpc = "play_paused"
    /\ is_paused' = FALSE
    /\ cpc' = "idle"
    /\ SessionFrame
    /\ UNCHANGED <<is_playing, LoopVars, play_index, clocal, pull>>

\* A variant of Pause that also clears is_playing.
PauseStops ==
    /\ cpc = "idle"
    /\ is_paused' = TRUE
    /\ is_playing' = FALSE
    /\ SessionFrame
    /\ UNCHANGED <<LoopVars, play_index, ctlVars, pull>>

\* pause(): self.is_paused = True
Pause ==
    /\ cpc = "idle"
    /\ is_paused' = TRUE
    /\ SessionFrame
    /\ UNCHANGED <<is_playing, LoopVars, play_index, ctlVars, pull>>

\* stop(): self.is_playing = False
Stop ==
    /\ cpc = "idle"
    /\ is_playing' = FALSE
    /\ cpc' = "stop_paused"
    /\ SessionFrame
    /\ UNCHANGED <<is_paused, LoopVars, play_index, clocal, pull>>

\* stop(): self.is_paused = False
StopPaused ==
    /\ cpc = "stop_paused"
    /\ is_paused' = FALSE
    /\ cpc' = "stop_index"
    /\ SessionFrame
    /\ UNCHANGED <<is_playing, LoopVars, play_index, clocal, pull>>

\* stop(): self.play_index = 0
StopReturn ==
    /\ cpc = "stop_index"
    /\ play_index' = 0
    /\ cpc' = "idle"
    /\ SessionFrame
    /\ UNCHANGED <<is_playing, is_paused, LoopVars, clocal, pull>>

\* int(pos_seconds * sample_rate) for pos_seconds = k / sample_rate: the
\* quotient and the product are rounded, so the product can fall just short
\* of k.
SeekIndices(k) == IF k > 0 THEN {k - 1, k} ELSE {0}

\* seek(k / sample_rate), once a session is loaded: the duration is read and
\* the position clamped.
Seek(k) ==
    /\ cpc = "idle"
    /\ sample_rate /= None
    /\ cpc' = "seek_index"
    /\ clocal' = [NoLocals EXCEPT !.pos = Clamp(k, 0, total_samples)]
    /\ SessionFrame
    /\ UNCHANGED <<is_playing, is_paused, LoopVars, play_index, pull>>

\* seek: self.play_index = int(pos_seconds * self.session.sample_rate)
SeekIndex ==
    /\ cpc = "seek_index"
    /\ play_index' \in SeekIndices(clocal.pos)
    /\ cpc' = "seek_playing"
    /\ SessionFrame
    /\ UNCHANGED <<is_playing, is_paused, LoopVars, clocal, pull>>

\* seek: self.is_playing = True
SeekPlaying ==
    /\ cpc = "seek_playing"
    /\ is_playing' = TRUE
    /\ cpc' = "seek_paused"
    /\ SessionFrame
    /\ UNCHANGED <<is_paused, LoopVars, play_index, clocal, pull>>

\* seek: self.is_paused = False, and the return
SeekReturn ==
    /\ cpc = "seek_paused"
    /\ is_paused' = FALSE
    /\ cpc' = "idle"
    /\ clocal' = NoLocals
    /\ SessionFrame
    /\ UNCHANGED <<is_playing, LoopVars, play_index, pull>>

\* set_loop_enabled(enabled)
SetLoopEnabled(enabled) ==
    /\ cpc = "idle"
    /\ loop_enabled' = enabled
    /\ SessionFrame
    /\ UNCHANGED <<is_playing, is_paused, start_fraction, end_fraction, loop_crossfade_enabled, loop_result, play_index, ctlVars, pull>>

\* set_loop_start(k / FractionGrid * duration), where it returns True
SetLoopStart(k) ==
    /\ cpc = "idle"
    /\ sample_rate /= None /\ total_samples > 0
    /\ Clamp(k, 0, FractionGrid) < end_fraction
    /\ start_fraction' = Clamp(k, 0, FractionGrid)
    /\ loop_result' = <<TRUE>>
    /\ SessionFrame
    /\ UNCHANGED <<is_playing, is_paused, loop_enabled, end_fraction, loop_crossfade_enabled, play_index, ctlVars, pull>>

\* set_loop_end(k / FractionGrid * duration), where it returns True
SetLoopEnd(k) ==
    /\ cpc = "idle"
    /\ sample_rate /= None /\ total_samples > 0
    /\ Clamp(k, 0, FractionGrid) > start_fraction
    /\ end_fraction' = Clamp(k, 0, FractionGrid)
    /\ loop_result' = <<TRUE>>
    /\ SessionFrame
    /\ UNCHANGED <<is_playing, is_paused, loop_enabled, start_fraction, loop_crossfade_enabled, play_index, ctlVars, pull>>

\* reset_loop_points()
ResetLoopPoints ==
    /\ cpc = "idle"
    /\ start_fraction' = 0
    /\ end_fraction' = FractionGrid
    /\ SessionFrame
    /\ UNCHANGED <<is_playing, is_paused, loop_enabled, loop_crossfade_enabled, loop_result, play_index, ctlVars, pull>>

\* set_loop_crossfade_enabled(enabled)
SetLoopCrossfadeEnabled(enabled) ==
    /\ cpc = "idle"
    /\ loop_crossfade_enabled' = enabled
    /\ SessionFrame
    /\ UNCHANGED <<is_playing, is_paused, loop_enabled, start_fraction, end_fraction, loop_result, play_index, ctlVars, pull>>

\* A variant of GetBoundsSamples whose end is not kept above its start.
GetBoundsSamplesBareEnd(total) ==
    IF total <= 0 THEN << >>
    ELSE LET start == Clamp((start_fraction * total) \div FractionGrid, 0, total - 1)
             end == Min2((end_fraction * total) \div FractionGrid, total)
         IN  IF start >= end THEN << >> ELSE <<start, end>>

\* LoopController.get_bounds_samples(total): << >> for None
GetBoundsSamples(total) ==
    IF total <= 0 THEN << >>
    ELSE LET start == Clamp((start_fraction * total) \div FractionGrid, 0, total - 1)
             end == Max2(start + 1, Min2((end_fraction * total) \div FractionGrid, total))
         IN  IF start >= end THEN << >> ELSE <<start, end>>

\* get_chunk(start, frames).size
ChunkSize(start, frames) ==
    IF sample_rate = None \/ total_samples <= 0 \/ start >= total_samples
    THEN frames ELSE ChunkFrames(start, frames)

\* _get_looping_chunk: crossfade_samples for a loop of loop_length samples;
\* crossfade_ms is a tenth of the loop's length kept within 10 to 50 ms.
CrossfadeSamples(loop_length) ==
    IF loop_crossfade_enabled /\ loop_length > 1
    THEN LET samples == IF loop_length * 10 <= SampleRateHz
                        THEN SampleRateHz \div 100
                        ELSE IF loop_length * 2 >= SampleRateHz
                        THEN SampleRateHz \div 20
                        ELSE loop_length \div 10
         IN  Min2(loop_length - 1, Max2(1, samples))
    ELSE 0

\* _get_looping_chunk: the while loop, from current_index = cur with `filled`
\* samples written; the value of current_index when it ends.
RECURSIVE LoopFill(_, _, _, _, _, _)
LoopFill(loop_start, loop_end, crossfade_samples, frames, cur, filled) ==
    IF filled >= frames THEN cur
    ELSE LET current_index == IF cur >= loop_end THEN loop_start ELSE cur
             remaining_loop == loop_end - current_index
         IN  IF remaining_loop <= 0 THEN current_index
             ELSE IF crossfade_samples > 0 /\ remaining_loop <= crossfade_samples
             THEN LET fade_len == Min2(crossfade_samples, frames - filled)
                      n == Min2(Min2(ChunkSize(current_index, fade_len),
                                     ChunkSize(loop_start, fade_len)), fade_len)
                  IN  IF n = 0 THEN current_index
                      ELSE LoopFill(loop_start, loop_end, crossfade_samples,
                                    frames, loop_start + n, filled + n)
             ELSE LET to_copy == Min2(frames - filled, remaining_loop)
                      n == ChunkSize(current_index, to_copy)
                  IN  IF n = 0 THEN current_index
                      ELSE LoopFill(loop_start, loop_end, crossfade_samples,
                                    frames,
                                    IF current_index + n >= total_samples
                                    THEN loop_start ELSE current_index + n,
                                    filled + n)

\* get_chunk(start, n): the indices of the live source it reads to give n
\* samples (none where it returns zeros).
SourceRange(start, n) ==
    IF sample_rate = None \/ total_samples <= 0 \/ start >= total_samples
    THEN {}
    ELSE start..(start + n - 1)

\* _get_looping_chunk: the while loop, from current_index = cur with `filled`
\* samples written; the indices of the live source whose samples it copies
\* or blends into the chunk.
RECURSIVE LoopReads(_, _, _, _, _, _)
LoopReads(loop_start, loop_end, crossfade_samples, frames, cur, filled) ==
    IF filled >= frames THEN {}
    ELSE LET current_index == IF cur >= loop_end THEN loop_start ELSE cur
             remaining_loop == loop_end - current_index
         IN  IF remaining_loop <= 0 THEN {}
             ELSE IF crossfade_samples > 0 /\ remaining_loop <= crossfade_samples
             THEN LET fade_len == Min2(crossfade_samples, frames - filled)
                      n == Min2(Min2(ChunkSize(current_index, fade_len),
                                     ChunkSize(loop_start, fade_len)), fade_len)
                  IN  IF n = 0 THEN {}
                      ELSE SourceRange(current_index, n)
                             \cup SourceRange(loop_start, n)
                             \cup LoopReads(loop_start, loop_end,
                                            crossfade_samples, frames,
                                            loop_start + n, filled + n)
             ELSE LET to_copy == Min2(frames - filled, remaining_loop)
                      n == ChunkSize(current_index, to_copy)
                  IN  IF n = 0 THEN {}
                      ELSE SourceRange(current_index, n)
                             \cup LoopReads(loop_start, loop_end,
                                            crossfade_samples, frames,
                                            IF current_index + n >= total_samples
                                            THEN loop_start ELSE current_index + n,
                                            filled + n)

\* _get_looping_chunk(loop_start, loop_end, frames): the indices of the live
\* source that go into the chunk.
LoopingReads(loop_start, loop_end, frames) ==
    IF total_samples <= 0 \/ loop_end <= loop_start THEN {}
    ELSE LoopReads(loop_start, loop_end, CrossfadeSamples(loop_end - loop_start),
                   frames, Min2(play_index, loop_end), 0)

\* _get_looping_chunk: the while loop, from current_index = cur with `filled`
\* samples written; the value of `filled` when it ends.
RECURSIVE LoopFilled(_, _, _, _, _, _)
LoopFilled(loop_start, loop_end, crossfade_samples, frames, cur, filled) ==
    IF filled >= frames THEN filled
    ELSE LET current_index == IF cur >= loop_end THEN loop_start ELSE cur
             remaining_loop == loop_end - current_index
         IN  IF remaining_loop <= 0 THEN filled
             ELSE IF crossfade_samples > 0 /\ remaining_loop <= crossfade_samples
             THEN LET fade_len == Min2(crossfade_samples, frames - filled)
                      n == Min2(Min2(ChunkSize(current_index, fade_len),
                                     ChunkSize(loop_start, fade_len)), fade_len)
                  IN  IF n = 0 THEN filled
                      ELSE LoopFilled(loop_start, loop_end, crossfade_samples,
                                      frames, loop_start + n, filled + n)
             ELSE LET to_copy == Min2(frames - filled, remaining_loop)
                      n == ChunkSize(current_index, to_copy)
                  IN  IF n = 0 THEN filled
                      ELSE LoopFilled(loop_start, loop_end, crossfade_samples,
                                      frames,
                                      IF current_index + n >= total_samples
                                      THEN loop_start ELSE current_index + n,
                                      filled + n)

\* _get_looping_chunk(loop_start, loop_end, frames): the number of samples of
\* the chunk it has written when it returns.
LoopingFilled(loop_start, loop_end, frames) ==
    IF total_samples <= 0 \/ loop_end <= loop_start THEN 0
    ELSE LoopFilled(loop_start, loop_end, CrossfadeSamples(loop_end - loop_start),
                    frames, Min2(play_index, loop_end), 0)

\* A variant of LoopingIndex without the wrap that follows the while loop.
LoopingIndexNoWrap(loop_start, loop_end, frames) ==
    IF total_samples <= 0 \/ loop_end <= loop_start THEN play_index
    ELSE LoopFill(loop_start, loop_end, CrossfadeSamples(loop_end - loop_start),
                  frames, Min2(play_index, loop_end), 0)

\* _get_looping_chunk(loop_start, loop_end, frames): the play_index it leaves.
LoopingIndex(loop_start, loop_end, frames) ==
    IF total_samples <= 0 \/ loop_end <= loop_start THEN play_index
    ELSE LET last == LoopFill(loop_start, loop_end,
                              CrossfadeSamples(loop_end - loop_start), frames,
                              Min2(play_index, loop_end), 0)
         IN  IF last >= loop_end THEN loop_start ELSE last

\* A variant of LoopActive that leaves the loop when play_index is at loop_end.
LoopActiveBelowEnd(bounds) == loop_enabled /\ bounds /= << >> /\ play_index < bounds[2]

\* _pull_audio: loop_active
LoopActive(bounds) == loop_enabled /\ bounds /= << >> /\ play_index <= bounds[2]

\* A variant of PullSilent that swaps a pending configuration in before it
\* returns the silence.
PullSilentSwaps(frames) ==
    /\ pull.pc = "idle"
    /\ ~is_playing \/ is_paused
    /\ NoSwap \/ SwapPending
    /\ pull' = [NoPull EXCEPT !.path = "silent", !.zeros = frames]
    /\ UNCHANGED lock

\* _pull_audio(frames) while the transport is not playing: silence.
PullSilent(frames) ==
    /\ pull.pc = "idle"
    /\ ~is_playing \/ is_paused
    /\ pull' = [NoPull EXCEPT !.path = "silent", !.zeros = frames]
    /\ SessionFrame
    /\ UNCHANGED <<is_playing, is_paused, LoopVars, play_index, ctlVars>>

\* _pull_audio(frames) while playing, up to the swap: maybe_swap_pending and
\* `self.play_index = new_index`.
PullSwap(frames) ==
    /\ pull.pc = "idle"
    /\ is_playing /\ ~is_paused
    /\ NoSwap \/ SwapPending
    /\ pull' = [pull EXCEPT !.pc = "read", !.frames = frames,
                             !.path = "none", !.zeros = 0]
    /\ UNCHANGED lock

\* A variant of TrackEnded that lets play_index rest on total_samples.
TrackPassed(index) == total_samples > 0 /\ index > total_samples

\* _pull_audio: self.session.total_samples > 0 and self.play_index >=
\* self.session.total_samples, after self.play_index += n
TrackEnded(index) == total_samples > 0 /\ index >= total_samples

\* _pull_audio from the loop bounds on: a loop-aware chunk, or a linear read
\* and the stop at the end of the track.  The samples go to the stream and
\* are not kept: `chunk` holds what get_chunk returns to a direct caller.
PullRead ==
    /\ pull.pc = "read"
    /\ LET bounds == GetBoundsSamples(total_samples)
       IN  IF LoopActive(bounds)
           THEN /\ play_index' = LoopingIndex(bounds[1], bounds[2], pull.frames)
                /\ pull' = [NoPull EXCEPT !.path = "loop", !.meters = "chunk"]
                /\ reverb_states' =
                      IF total_samples <= 0 THEN reverb_states
                      ELSE ChunkReverbs(Min2(play_index, bounds[2] - 1), 1)
                /\ UNCHANGED <<is_playing, is_paused>>
           ELSE /\ pull' = [NoPull EXCEPT
                              !.path = "linear",
                              !.meters = IF ChunkSize(play_index, pull.frames) = 0
                                         THEN "zero" ELSE "chunk"]
                /\ reverb_states' = ChunkReverbs(play_index, pull.frames)
                /\ LET n == ChunkSize(play_index, pull.frames)
                   IN  IF n = 0 \/ TrackEnded(play_index + n)
                       THEN /\ is_playing' = FALSE
                            /\ is_paused' = FALSE
                            /\ play_index' = 0
                       ELSE /\ play_index' = play_index + n
                            /\ UNCHANGED <<is_playing, is_paused>>
    /\ UNCHANGED <<origVars, liveVars, pendVars, planVars, ctlVars, histVars, fxVars, LoopVars, chunk, swap_result>>

\* ------------------------------------------------------------ SamplePlayer

\* What the operations of the sample player leave alone.
ClipFrame == UNCHANGED <<sample_rate, orig_len, original_stem_data,
                         original_mix, pipeline, lock, liveVars, reverb_states, pendVars,
                         planVars, play_index, ctlVars, histVars, playVars,
                         fxVars, outVars>>

\* start_clip(clip_id, data, sample_rate, start_index=, loop=) with data of
\* `size` samples at the player's sample rate: the clip is appended to the
\* list active_clips names at that moment.
StartClip(size, start_index, loop) ==
    /\ Len(sample_player.started) < MaxClips
    /\ IF size = 0
       THEN UNCHANGED sample_player
       ELSE LET id == Len(sample_player.started) + 1
                index == Max2(0, Min2(start_index, Max2(0, size - 1)))
                clip == [id |-> id, size |-> size, index |-> index,
                         loop |-> loop]
            IN  sample_player' =
                  [sample_player EXCEPT
                     !.active_clips = Append(@, clip),
                     !.started = Append(@, clip),
                     !.emitted = Append(@, << >>)]
    /\ ClipFrame

\* _pull_audio: the while loop over one clip, from `start` with
\* remaining_frames frames left to write; the value of `start` when it ends
\* and the indices of the samples of the clip written to the chunk, in order.
RECURSIVE ClipFill(_, _, _, _, _)
ClipFill(size, loop, start, remaining_frames, taken) ==
    IF remaining_frames <= 0 \/ size = 0
    THEN [start |-> start, taken |-> taken]
    ELSE LET end == Min2(start + remaining_frames, size)
             piece == [k \in 1..(end - start) |-> start + k - 1]
             left == remaining_frames - Len(piece)
         IN  IF left > 0 /\ loop
             THEN ClipFill(size, loop, 0, left, taken \o piece)
             ELSE [start |-> end, taken |-> taken \o piece]

\* _pull_audio: the clip goes to `remaining`.
ClipKept(clip, frames, start, write_cursor) ==
    \/ clip.loop /\ clip.size > 0
    \/ write_cursor >= frames /\ start < clip.size

\* _pull_audio: the body of the for loop for one clip.
ClipPulled(clip, frames) ==
    LET fill == ClipFill(clip.size, clip.loop, clip.index, frames, << >>)
    IN  [clip |-> [clip EXCEPT !.index = IF clip.size > 0
                                         THEN fill.start % clip.size ELSE 0],
         taken |-> fill.taken,
         keep |-> ClipKept(clip, frames, fill.start, Len(fill.taken))]

\* SamplePlayer._pull_audio(frames) up to the end of its for loop: silence
\* and the return when no clip is active.
ClipPullRead(frames) ==
    /\ sample_player.pc = "idle"
    /\ LET active == sample_player.active_clips
           all == [i \in 1..Len(active) |-> ClipPulled(active[i], frames)]
           staying == SelectSeq(all, LAMBDA r : r.keep)
       IN  IF active = << >>
           THEN UNCHANGED sample_player
           ELSE sample_player' =
                  [sample_player EXCEPT
                     !.pc = "assign",
                     !.remaining = [i \in 1..Len(staying) |-> staying[i].clip],
                     !.emitted = [id \in DOMAIN @ |->
                        IF \E i \in 1..Len(active) :
                              active[i].id = id /\ ~active[i].loop
                        THEN @[id] \o all[CHOOSE i \in 1..Len(active) :
                                             active[i].id = id].taken
                        ELSE @[id]]]
    /\ ClipFrame

\* SamplePlayer._pull_audio: self.active_clips = remaining, and the return.
ClipPullAssign ==
    /\ sample_player.pc = "assign"
    /\ sample_player' = [sample_player EXCEPT
                            !.active_clips = sample_player.remaining,
                            !.remaining = << >>,
                            !.pc = "idle"]
    /\ ClipFrame

NextClip ==
    \/ \E size \in 0..MaxClipLen, start_index \in 0..MaxClipLen, loop \in BOOLEAN :
          StartClip(size, start_index, loop)
    \/ \E frames \in 1..MaxFrames : ClipPullRead(frames)
    \/ ClipPullAssign

SpecClip == Init /\ [][NextClip]_vars

\* ------------------------------------------------------------ the pipeline worker

\* What the steps of the pipeline worker leave alone.
PipeFrame == UNCHANGED <<sample_rate, orig_len, original_stem_data,
                         original_mix, sample_player, lock, liveVars,
                         reverb_states, pendVars, planVars, play_index, ctlVars,
                         histVars, playVars, fxVars, outVars>>

\* queue.put(PipelineMessage(kind, payload)) for each of kinds, in order;
\* the payload is kept as the part of the program that wrote it.
Put(kinds, payload) ==
    pipeline.msgs \o [i \in 1..Len(kinds) |->
                        [kind |-> kinds[i], payload |-> payload]]

\* _run_pipeline_subprocess(url, skip_separation, ...) up to the try of
\* process(): the status "Working..." and the first log.
PipeStart(skip_separation) ==
    /\ pipeline.pc = "start"
    /\ pipeline' = [pipeline EXCEPT !.pc = "info", !.skip = skip_separation,
                                    !.msgs = Put(<<"status", "log">>, "process")]
    /\ PipeFrame

\* process(): _fetch_video_info, the cache directory and _download_audio,
\* each of which logs once when it returns and may raise instead.
PipeStep(raises) ==
    /\ pipeline.pc \in {"info", "cache", "download"}
    /\ pipeline' =
          IF raises THEN [pipeline EXCEPT !.pc = "failed"]
          ELSE [pipeline EXCEPT
                  !.pc = CASE @ = "info" -> "cache"
                           [] @ = "cache" -> "download"
                           [] OTHER -> "submit",
                  !.msgs = Put(<<"log">>, "process")]
    /\ PipeFrame

\* process(): the submits to the executor.
PipeSubmit ==
    /\ pipeline.pc = "submit"
    /\ pipeline' = [pipeline EXCEPT
                      !.pc = "key_result",
                      !.key = "run",
                      !.stems = IF pipeline.skip THEN "none" ELSE "run"]
    /\ PipeFrame

\* The executor's thread in detect_key_string: the log "Analyzing song
\* key", the profiles (which may raise into its except, whose log ends it),
\* the log of a low confidence when the scores are close, and the log of the
\* key detected.  It returns None on failure and raises nothing.
KeyThread(raises, close) ==
    \/ /\ pipeline.key = "run"
       /\ pipeline' = [pipeline EXCEPT !.key = "profiles",
                                       !.msgs = Put(<<"log">>, "key")]
       /\ PipeFrame
    \/ /\ pipeline.key = "profiles"
       /\ pipeline' =
             IF raises
             THEN [pipeline EXCEPT !.key = "done", !.msgs = Put(<<"log">>, "key")]
             ELSE [pipeline EXCEPT
                     !.key = "named",
                     !.msgs = IF close THEN Put(<<"log">>, "key") ELSE pipeline.msgs]
       /\ PipeFrame
    \/ /\ pipeline.key = "named"
       /\ pipeline' = [pipeline EXCEPT !.key = "done",
                                       !.msgs = Put(<<"log">>, "key")]
       /\ PipeFrame

\* The executor's thread in _maybe_separate: run_demucs logs its command,
\* then raises or logs the stems directory and returns, and the two logs of
\* _maybe_separate follow.
StemsThread(raises) ==
    \/ /\ pipeline.stems = "run"
       /\ pipeline' = [pipeline EXCEPT !.stems = "demucs",
                                       !.msgs = Put(<<"log", "log">>, "stems")]
       /\ PipeFrame
    \/ /\ pipeline.stems = "demucs"
       /\ pipeline' =
             IF raises THEN [pipeline EXCEPT !.stems = "raised"]
             ELSE [pipeline EXCEPT !.stems = "done",
                                   !.msgs = Put(<<"log", "log", "log">>, "stems")]
       /\ PipeFrame

\* process(): key_future.result() and stems_future.result()
PipeResults ==
    \/ /\ pipeline.pc = "key_result"
       /\ pipeline.key = "done"
       /\ pipeline' = [pipeline EXCEPT !.pc = "stems_result"]
       /\ PipeFrame
    \/ /\ pipeline.pc = "stems_result"
       /\ pipeline.stems \in {"none", "done", "raised"}
       /\ pipeline' = [pipeline EXCEPT !.pc = "exit",
                                       !.failing = pipeline.stems = "raised"]
       /\ PipeFrame

\* ThreadPoolExecutor.__exit__: shutdown(wait=True) returns once no thread
\* of the executor is running.
PoolDrained == /\ pipeline.key \in {"none", "done"}
               /\ pipeline.stems \in {"none", "done", "raised"}

\* process(): the end of the with block.
PipeExit ==
    /\ pipeline.pc = "exit"
    /\ PoolDrained
    /\ pipeline' = [pipeline EXCEPT
                      !.pc = IF pipeline.failing THEN "failed" ELSE "built"]
    /\ PipeFrame

\* process(): the status "Done" and the return, and the put of the result.
PipeResult ==
    /\ pipeline.pc = "built"
    /\ pipeline' = [pipeline EXCEPT !.pc = "finally",
                                    !.msgs = Put(<<"status", "result">>, "process")]
    /\ PipeFrame

\* A variant of PipeError that puts no 'error' message.
PipeErrorSilent ==
    /\ pipeline.pc = "failed"
    /\ pipeline' = [pipeline EXCEPT !.pc = "finally",
                                    !.msgs = Put(<<"status">>, "process")]
    /\ PipeFrame

\* process(): the status "Error" and the raise, and the put of the error.
PipeError ==
    /\ pipeline.pc = "failed"
    /\ pipeline' = [pipeline EXCEPT !.pc = "finally",
                                    !.msgs = Put(<<"status", "error">>, "process")]
    /\ PipeFrame

\* _run_pipeline_subprocess: finally
PipeComplete ==
    /\ pipeline.pc = "finally"
    /\ pipeline' = [pipeline EXCEPT !.pc = "end",
                                    !.msgs = Put(<<"complete">>, "process")]
    /\ PipeFrame

NextPipe ==
    \/ \E skip_separation \in BOOLEAN : PipeStart(skip_separation)
    \/ \E raises \in BOOLEAN : PipeStep(raises)
    \/ PipeSubmit
    \/ \E raises \in BOOLEAN, close \in BOOLEAN : KeyThread(raises, close)
    \/ \E raises \in BOOLEAN : StemsThread(raises)
    \/ PipeResults
    \/ PipeExit
    \/ PipeResult
    \/ PipeError
    \/ PipeComplete

SpecPipe == Init /\ [][NextPipe]_vars

\* ------------------------------------------------------------ specification

Next ==
    \/ LoadAudio
    \/ LoadMixOnly
    \/ \E pa \in BOOLEAN, names \in SelectionInputs : SetSelection(pa, names)
    \/ EnsureSelectionReady
    \/ EnsureArgs
    \/ EnsureQueue
    \/ \E kind \in {"tempo", "pitch", "both"}, rate \in TempoInputs,
          semitones \in PitchInputs : SetTempoPitch(kind, rate, semitones)
    \/ RequestTempoPitchChange
    \/ RequestQueue
    \/ CancelPendingRender
    \/ ResetToOriginalMix
    \/ ResetTempo
    \/ ResetPitch
    \/ ResetStems
    \/ ResetMix
    \/ ResetMissing
    \/ ResetTotal
    \/ ResetPlayAll
    \/ ResetActive
    \/ ResetTarget
    \/ ResetLocked
    \/ ResetReturn
    \/ \E p \in PlanIds : RunPick(p)
    \/ \E p \in PlanIds : RunSynth(p)
    \/ \E p \in PlanIds : RunStore(p)
    \/ MaybeSwapPending
    \/ SwapNotReady

Spec == Init /\ [][Next]_vars

\* The worker threads are scheduled again and again, and the primitive
\* returns: a worker that can take its next step takes it.
WorkerFairness ==
    \A p \in 1..MaxGen :
        /\ WF_vars(p \in PlanIds /\ RunPick(p))
        /\ WF_vars(p \in PlanIds /\ RunSynth(p))
        /\ WF_vars(p \in PlanIds /\ RunStore(p))

SpecFair == Init /\ [][Next]_vars /\ WorkerFairness

\* The same, with a time-stretch / pitch-shift primitive that may raise.
NextRaise ==
    \/ Next
    \/ \E p \in PlanIds : RunSynthRaise(p)

SpecRaise == Init /\ [][NextRaise]_vars

\* ------------------------------------------------------------ the pending lock

\* `with self._pending_lock:` / `with self._pending_condition:`, the entry: the
\* thread goes on once nobody holds the lock, and holds it.
Acquire(holder) ==
    /\ lock = Unlocked
    /\ lock' = holder
    /\ UNCHANGED <<audioVars, liveVars, reverb_states, pendVars, planVars,
                   play_index, ctlVars, histVars, playVars, fxVars, outVars>>

\* A variant of LeaveSection in which the worker that took a task keeps the
\* lock while it renders it.
LeaveAfterSynthesis(p, w) ==
    IF w[p] = "synth" THEN HeldByWorker(p) ELSE Unlocked

\* _run_render_plan: the lock when the worker of plan p, now at w[p], leaves a
\* `with self._pending_condition:` block or waits on the condition.
LeaveSection(p, w) == Unlocked

\* _run_render_plan: the worker of plan p enters a locked section.
WorkerAcquire(p) ==
    /\ wpc[p] \in {"pick", "store"}
    /\ Acquire(HeldByWorker(p))

\* _run_render_plan: the first locked section, from the lock taken to the
\* lock released.
LockedPick(p) ==
    /\ lock = HeldByWorker(p)
    /\ PickSection(p)
    /\ lock' = LeaveSection(p, wpc')

\* _run_render_plan: the second locked section.
LockedStore(p) ==
    /\ lock = HeldByWorker(p)
    /\ StoreSection(p)
    /\ lock' = LeaveSection(p, wpc')

\* maybe_swap_pending, called by the audio callback: the entry of its locked
\* section.
CallbackAcquire == Acquire(HeldByCallback)

\* maybe_swap_pending, called by the audio callback: the locked section, and
\* what follows it on the callback's thread.
LockedSwap ==
    /\ lock = HeldByCallback
    /\ NoSwap \/ SwapPending
    /\ lock' = Unlocked
    /\ UNCHANGED pull

\* _queue_build, whose body is one locked section of the control thread.
LockedRequestQueue == lock = Unlocked /\ RequestQueue

\* cancel_pending_render, one locked section of the control thread.
LockedCancel == lock = Unlocked /\ CancelPendingRender

NextLock ==
    \/ LoadAudio
    \/ \E kind \in {"tempo", "pitch", "both"}, rate \in TempoInputs,
          semitones \in PitchInputs : SetTempoPitch(kind, rate, semitones)
    \/ RequestTempoPitchChange
    \/ LockedRequestQueue
    \/ LockedCancel
    \/ \E p \in PlanIds : WorkerAcquire(p)
    \/ \E p \in PlanIds : LockedPick(p)
    \/ \E p \in PlanIds : RunSynth(p)
    \/ \E p \in PlanIds : LockedStore(p)
    \/ CallbackAcquire
    \/ LockedSwap

\* A thread that holds the lock runs on to the end of its locked section; no
\* such assumption is made on the synthesis, which may take for ever.
LockFairness ==
    /\ \A p \in 1..MaxGen : WF_vars(LockedPick(p)) /\ WF_vars(LockedStore(p))
    /\ WF_vars(LockedSwap)

SpecLock == Init /\ [][NextLock]_vars /\ LockFairness

\* ------------------------------------------------------------ the reset alone

\* A session with the stems `names` (none: a mix-only session) of `len`
\* samples, as loaded, stopped at sample `pos`, after
\* request_tempo_pitch_change(tempo) returned: its plan is in flight.
RequestIssued(names, len, tempo, pos) ==
    /\ sample_rate = "sr"
    /\ orig_len = [k \in names \cup {MIX} |-> len]
    /\ original_stem_data = [k \in names |-> Original(k)]
    /\ original_mix = Original(MIX)
    /\ current_stem_data = original_stem_data
    /\ current_mix_data = original_mix
    /\ tempo_rate = UnitTempo
    /\ pitch_semitones = ZeroPitch
    /\ current_missing_stems = {}
    /\ total_samples = len
    /\ play_all = TRUE
    /\ active_stems = names
    /\ reverb_states = {}
    /\ pending_stem_data = EmptyDict
    /\ pending_mix_data = NoBuffer
    /\ pending_tempo_rate = tempo
    /\ pending_pitch_semitones = ZeroPitch
    /\ pending_missing_stems = {}
    /\ pending_total_samples = 0
    /\ pending_ready = FALSE
    /\ pending_generation = 1
    /\ pending_target_play_all = TRUE
    /\ pending_target_active_stems = names
    /\ plans = <<RenderPlan(tempo, ZeroPitch, TRUE, TRUE, TRUE, names, {},
                            << >>, EmptyDict, NoBuffer, TRUE)>>
    /\ render_plan = 1
    /\ wpc = <<"pick">>
    /\ processed = <<NoBuffer>>
    /\ play_index = pos
    /\ cpc = "idle"
    /\ clocal = NoLocals
    /\ superseded = {}
    /\ kept = <<{}>>
    /\ sel_fresh = FALSE
    /\ last_request = Request(tempo, ZeroPitch)
    /\ sample_player = NoClips
    /\ pipeline = NoPipeline
    /\ is_playing = FALSE
    /\ is_paused = FALSE
    /\ loop_enabled = FALSE
    /\ start_fraction = 0
    /\ end_fraction = FractionGrid
    /\ loop_crossfade_enabled = FALSE
    /\ loop_result = << >>
    /\ reverb_enabled = FALSE
    /\ reverb_wet = DefaultWet
    /\ chunk = NoChunk
    /\ swap_result = << >>
    /\ pull = NoPull
    /\ lock = Unlocked

InitReset ==
    \E names \in {{}, StemNames}, tempo \in TempoGrid \ {UnitTempo} :
        \E pos \in {0, MaxLen} : RequestIssued(names, MaxLen, tempo, pos)

\* reset_to_original_mix, the render worker and the swap, with no other call
\* of the control thread.
NextReset ==
    \/ ResetToOriginalMix
    \/ ResetTempo
    \/ ResetPitch
    \/ ResetStems
    \/ ResetMix
    \/ ResetMissing
    \/ ResetTotal
    \/ ResetPlayAll
    \/ ResetActive
    \/ ResetTarget
    \/ ResetLocked
    \/ ResetReturn
    \/ \E p \in PlanIds : RunPick(p)
    \/ \E p \in PlanIds : RunSynth(p)
    \/ \E p \in PlanIds : RunStore(p)
    \/ MaybeSwapPending
    \/ SwapNotReady

SpecReset == InitReset /\ [][NextReset]_vars

\* ------------------------------------------------------------ the loop region

\* The positions and durations, in seconds, the calls are made with.
Positions == (0 - 1)..(FractionGrid + 1)
Durations == {0 - 1, 0, 1, 2, FractionGrid}

\* max(0.0, min(position_seconds / duration_seconds, 1.0)), in
\* FractionGrid-ths; the durations above zero divide FractionGrid.
Fraction(position, duration) ==
    Clamp((position * FractionGrid) \div duration, 0, FractionGrid)

\* A variant of StartRefused that lets the start reach the end.
StartRefusedPastEnd(fraction) == fraction > end_fraction

\* set_start: if fraction >= self._bounds.end_fraction: return False
StartRefused(fraction) == fraction >= end_fraction

\* set_end: if fraction <= self._bounds.start_fraction: return False
EndRefused(fraction) == fraction <= start_fraction

\* What the calls on the LoopController leave alone.
LoopFrame ==
    /\ SessionFrame
    /\ UNCHANGED <<is_playing, is_paused, loop_enabled, loop_crossfade_enabled,
                   play_index, ctlVars, pull>>

\* LoopController.set_start(position_seconds, duration_seconds)
SetStart(position, duration) ==
    /\ cpc = "idle"
    /\ IF duration <= 0 \/ StartRefused(Fraction(position, duration))
       THEN loop_result' = <<FALSE>> /\ UNCHANGED start_fraction
       ELSE /\ start_fraction' = Fraction(position, duration)
            /\ loop_result' = <<TRUE>>
    /\ UNCHANGED end_fraction
    /\ LoopFrame

\* LoopController.set_end(position_seconds, duration_seconds)
SetEnd(position, duration) ==
    /\ cpc = "idle"
    /\ IF duration <= 0 \/ EndRefused(Fraction(position, duration))
       THEN loop_result' = <<FALSE>> /\ UNCHANGED end_fraction
       ELSE /\ end_fraction' = Fraction(position, duration)
            /\ loop_result' = <<TRUE>>
    /\ UNCHANGED start_fraction
    /\ LoopFrame

\* LoopController.reset_bounds()
ResetBounds == ResetLoopPoints

NextLoop ==
    \/ \E position \in Positions, duration \in Durations :
          SetStart(position, duration)
    \/ \E position \in Positions, duration \in Durations :
          SetEnd(position, duration)
    \/ ResetBounds
    \/ \E enabled \in BOOLEAN : SetLoopEnabled(enabled)
    \/ \E enabled \in BOOLEAN : SetLoopCrossfadeEnabled(enabled)
    \/ LoadMixOnly

SpecLoop == Init /\ [][NextLoop]_vars

\* ------------------------------------------------------------ the swap alone

\* The plan of a tempo request on a mix-only session, once its worker has
\* published it.
PublishedMixPlan(tempo, gen) ==
    [RenderPlan(tempo, ZeroPitch, TRUE, TRUE, TRUE, {}, {}, << >>, EmptyDict,
                Buffer(MIX, tempo, ZeroPitch, gen), FALSE)
        EXCEPT !.cancelled = TRUE]

\* A mix-only session of `len` samples playing at tempo `live`, stopped at
\* sample `pos`, with the result of a request for tempo `next` ready.
SwapReady(len, live, next, pos) ==
    LET lens == [k \in {MIX} |-> len]
        liveGen == IF live = UnitTempo THEN 0 ELSE 1
        liveMix == Buffer(MIX, live, ZeroPitch, liveGen)
        nextMix == Buffer(MIX, next, ZeroPitch, liveGen + 1)
        done == IF live = UnitTempo THEN << >>
                ELSE <<PublishedMixPlan(live, 1)>>
    IN  /\ sample_rate = "sr"
        /\ orig_len = lens
        /\ original_stem_data = EmptyDict
        /\ original_mix = Original(MIX)
        /\ current_stem_data = EmptyDict
        /\ current_mix_data = liveMix
        /\ tempo_rate = live
        /\ pitch_semitones = ZeroPitch
        /\ current_missing_stems = {}
        /\ total_samples = BufLenIn(lens, liveMix)
        /\ play_all = TRUE
        /\ active_stems = {}
        /\ reverb_states = {}
        /\ pending_stem_data = EmptyDict
        /\ pending_mix_data = nextMix
        /\ pending_tempo_rate = next
        /\ pending_pitch_semitones = ZeroPitch
        /\ pending_missing_stems = {}
        /\ pending_total_samples = BufLenIn(lens, nextMix)
        /\ pending_ready = TRUE
        /\ pending_generation = liveGen + 1
        /\ pending_target_play_all = TRUE
        /\ pending_target_active_stems = {}
        /\ plans = Append(done, PublishedMixPlan(next, liveGen + 1))
        /\ render_plan = 0
        /\ wpc = [i \in 1..(liveGen + 1) |-> "done"]
        /\ processed = [i \in 1..(liveGen + 1) |-> NoBuffer]
        /\ play_index = pos
        /\ cpc = "idle"
        /\ clocal = NoLocals
        /\ superseded = {}
        /\ kept = [i \in 1..(liveGen + 1) |-> {}]
        /\ sel_fresh = FALSE
        /\ last_request = Request(next, ZeroPitch)
        /\ sample_player = NoClips
        /\ pipeline = NoPipeline
        /\ is_playing = FALSE
        /\ is_paused = FALSE
        /\ loop_enabled = FALSE
        /\ start_fraction = 0
        /\ end_fraction = FractionGrid
        /\ loop_crossfade_enabled = FALSE
        /\ loop_result = << >>
        /\ reverb_enabled = FALSE
        /\ reverb_wet = DefaultWet
        /\ chunk = NoChunk
        /\ swap_result = << >>
        /\ pull = NoPull
        /\ lock = Unlocked

InitSwap ==
    \E len \in 1..MaxLen, live \in TempoGrid, next \in TempoGrid :
        /\ live /= next
        /\ \E pos \in 0..StretchLen(len, live) :
              SwapReady(len, live, next, pos)

NextSwap == MaybeSwapPending \/ SwapNotReady

SpecSwap == InitSwap /\ [][NextSwap]_vars

\* The plan of a request for `tempo` made with play_all set and `names`
\* selected, after its worker published it.
PublishedPlan(tempo, names) ==
    [RenderPlan(tempo, ZeroPitch, TRUE, TRUE, TRUE, names, {}, << >>,
                EmptyDict, Buffer(MIX, tempo, ZeroPitch, 1), FALSE)
        EXCEPT !.cancelled = TRUE]

\* A session with the stems `names` (none: a mix-only session), loaded, its
\* reverb set to (rev, wet), playing at tempo `live` (the unit tempo: as
\* loaded; another: the mix rendered for it was swapped in), while the control
\* thread is in set_selection(pa, act), past its writes of the selection.
ChunkReady(names, live, pa, act, rev, wet) ==
    LET lens == [k \in names \cup {MIX} |-> MaxLen]
        asLoaded == live = UnitTempo
        liveMix == IF asLoaded THEN Original(MIX)
                   ELSE Buffer(MIX, live, ZeroPitch, 1)
        liveStems == IF asLoaded THEN [k \in names |-> Original(k)]
                     ELSE EmptyDict
    IN  /\ sample_rate = "sr"
        /\ orig_len = lens
        /\ original_stem_data = [k \in names |-> Original(k)]
        /\ original_mix = Original(MIX)
        /\ current_stem_data = liveStems
        /\ current_mix_data = liveMix
        /\ tempo_rate = live
        /\ pitch_semitones = ZeroPitch
        /\ current_missing_stems = {}
        /\ total_samples = ComputeTotalSamplesIn(lens, liveStems, liveMix)
        /\ play_all = pa
        /\ active_stems = act
        /\ reverb_states = {}
        /\ pending_stem_data = EmptyDict
        /\ pending_mix_data = NoBuffer
        /\ pending_tempo_rate = live
        /\ pending_pitch_semitones = ZeroPitch
        /\ pending_missing_stems = {}
        /\ pending_total_samples = 0
        /\ pending_ready = FALSE
        /\ pending_generation = IF asLoaded THEN 0 ELSE 1
        /\ pending_target_play_all = TRUE
        /\ pending_target_active_stems = names
        /\ plans = IF asLoaded THEN << >> ELSE <<PublishedPlan(live, names)>>
        /\ render_plan = 0
        /\ wpc = IF asLoaded THEN << >> ELSE <<"done">>
        /\ processed = IF asLoaded THEN << >> ELSE <<NoBuffer>>
        /\ play_index = 0
        /\ cpc = "ensure"
        /\ clocal = NoLocals
        /\ superseded = {}
        /\ kept = IF asLoaded THEN << >> ELSE <<{}>>
        /\ sel_fresh = TRUE
        /\ last_request = (IF asLoaded THEN NoRequest ELSE Request(live, ZeroPitch))
        /\ sample_player = NoClips
        /\ pipeline = NoPipeline
        /\ is_playing = FALSE
        /\ is_paused = FALSE
        /\ loop_enabled = FALSE
        /\ start_fraction = 0
        /\ end_fraction = FractionGrid
        /\ loop_crossfade_enabled = FALSE
        /\ loop_result = << >>
        /\ reverb_enabled = rev
        /\ reverb_wet = wet
        /\ chunk = NoChunk
        /\ swap_result = IF asLoaded THEN << >> ELSE <<0>>
        /\ pull = NoPull
        /\ lock = Unlocked

\* Before anything is loaded, or one of the sessions above.
InitChunk ==
    \/ Init
    \/ \E names \in {StemNames, {}}, live \in {UnitTempo, MaxTempo} :
       \E pa \in BOOLEAN, act \in SUBSET names :
       \E rev \in BOOLEAN, wet \in WetInputs :
          /\ act = {} => names = {}
          /\ ChunkReady(names, live, pa, act, rev, wet)

NextChunk == \E start \in 0..(MaxLen + 1), frames \in 1..MaxFrames :
                GetChunk(start, frames)

SpecChunk == InitChunk /\ [][NextChunk]_vars

\* A session on which, once loaded, only set_tempo_rate, set_pitch_semitones
\* and set_tempo_and_pitch are called, with its worker threads and the swaps.
NextIntent ==
    \/ LoadAudio
    \/ LoadMixOnly
    \/ \E kind \in {"tempo", "pitch", "both"}, rate \in TempoInputs,
          semitones \in PitchInputs : SetTempoPitch(kind, rate, semitones)
    \/ RequestTempoPitchChange
    \/ RequestQueue
    \/ \E p \in PlanIds : RunPick(p)
    \/ \E p \in PlanIds : RunSynth(p)
    \/ \E p \in PlanIds : RunStore(p)
    \/ MaybeSwapPending
    \/ SwapNotReady

SpecIntent == Init /\ [][NextIntent]_vars

\* load_audio (some stem files) or load_mix_only (none) on files of any
\* lengths up to MaxFileLen, empty files included.
LoadFiles ==
    \E stemNames \in SUBSET StemNames :
       \E lens \in [stemNames \cup {MIX} -> 0..MaxFileLen] :
          LoadedFiles(stemNames, lens)

SpecTotal == Init /\ [][LoadFiles]_vars

\* A mix-only session: not loaded yet, or loaded and stopped at 0 with the
\* result of a request for the highest tempo ready.
InitPlay == Init \/ SwapReady(MaxLen, UnitTempo, MaxTempo, 0)

NextPlay ==
    \/ LoadMixOnly
    \/ Play \/ PlayPaused
    \/ Pause
    \/ Stop \/ StopPaused \/ StopReturn
    \/ \E k \in 0..(MaxLen + 1) : Seek(k)
    \/ SeekIndex \/ SeekPlaying \/ SeekReturn
    \/ \E enabled \in BOOLEAN : SetLoopEnabled(enabled)
    \/ \E k \in 0..FractionGrid : SetLoopStart(k) \/ SetLoopEnd(k)
    \/ ResetLoopPoints
    \/ \E enabled \in BOOLEAN : SetLoopCrossfadeEnabled(enabled)
    \/ \E frames \in 1..MaxFrames : PullSilent(frames) \/ PullSwap(frames)
    \/ PullRead

SpecPlay == InitPlay /\ [][NextPlay]_vars

\* ------------------------------------------------------------ properties

LiveBuffers == Values(current_stem_data) \cup ({current_mix_data} \ {NoBuffer})
PendingBuffers == Values(pending_stem_data) \cup ({pending_mix_data} \ {NoBuffer})

\* A step of maybe_swap_pending that swaps: the ready flag falls and the
\* generation stays (cancel, reset and _queue_build all raise it).
SwapStep == /\ pending_ready
            /\ ~pending_ready'
            /\ pending_generation' = pending_generation

\* The worker of plan p is running its loop.
Working(p) == wpc[p] \in {"pick", "synth", "store", "wait"}

\* C1, as the spec states it: once a job has been superseded by a newly
\* started job, no buffer that the superseded job synthesized is in the live
\* configuration.
C1_NoBufferOfSupersededJobLive ==
    \A b \in LiveBuffers : b.gen \notin superseded

\* C1, as the code has it: a buffer of a superseded job is in the live or the
\* pending configuration only if the job had already completed it when it was
\* superseded (_queue_build hands such results to the successor job for the
\* same tempo and pitch); what the superseded job's worker finishes afterwards
\* is discarded.
C1_OnlyResultsKeptAtSupersession ==
    \A b \in LiveBuffers \cup PendingBuffers :
        b.gen \in superseded => b \in kept[b.gen]

\* A buffer that a superseded job had completed is live, and that job's worker
\* has gone on to finish a unit and discard it.
C1_Witness ==
    \E b \in LiveBuffers :
        /\ b.gen \in superseded
        /\ b \in kept[b.gen]
        /\ wpc[b.gen] = "done"
        /\ plans[b.gen].current_task \notin DOMAIN plans[b.gen].completed_cache
        /\ plans[b.gen].current_task \notin {None, MIX}

\* The buffers of a configuration were all made with its tempo and pitch.
Consistent(stems, mix, tempo, pitch) ==
    \A b \in Values(stems) \cup ({mix} \ {NoBuffer}) :
        b.tempo = tempo /\ b.pitch = pitch

\* C2: whenever no control-thread call is under way, every buffer of the live
\* configuration was produced with the live tempo_rate and pitch_semitones,
\* and every buffer of a ready pending configuration with the pending ones.
C2_ConfigurationsConsistent ==
    cpc = "idle" =>
        /\ Consistent(current_stem_data, current_mix_data,
                      tempo_rate, pitch_semitones)
        /\ pending_ready =>
              Consistent(pending_stem_data, pending_mix_data,
                         pending_tempo_rate, pending_pitch_semitones)

\* C3: when the live selection is what the latest set_selection call asked
\* for and that call has returned, a swap leaves play_all and active_stems as
\* they are (it does not bring back the selection the job captured when it
\* was started).
C3_SwapKeepsLatestSelection ==
    [][(SwapStep /\ sel_fresh /\ cpc = "idle") => selVars' = selVars]_vars

\* C4: once audio is loaded, every step that changes live state is a swap of
\* maybe_swap_pending.
C4_LiveWrittenOnlyBySwap ==
    [][(sample_rate /= None /\ liveVars' /= liveVars) => SwapStep]_vars

\* C5: when request_tempo_pitch_change reaches _queue_build with the tempo,
\* pitch and selection of the job whose result is ready and waiting to be
\* swapped, it creates no RenderPlan and the result stays ready.
C5_SameRequestStartsNoJob ==
    [][(/\ cpc = "request_queue"
        /\ pending_ready
        /\ pending_tempo_rate = clocal.tempo
        /\ pending_pitch_semitones = clocal.pitch
        /\ pending_target_play_all = clocal.tpa
        /\ pending_target_active_stems = clocal.tas
        /\ DOMAIN pending_stem_data = clocal.stems
        /\ (pending_mix_data /= NoBuffer) = clocal.mix)
       => (Len(plans') = Len(plans) /\ pending_ready')]_vars

\* C6: the worker of a plan never takes up a source that is already among the
\* plan's completed results.
C6_NoCompletedSourceSynthesizedAgain ==
    [][\A p \in PlanIds :
          (wpc[p] = "pick" /\ wpc'[p] = "synth") =>
              LET task == plans'[p].current_task
              IN  IF task = MIX THEN plans[p].mix_data = NoBuffer
                  ELSE task \notin DOMAIN plans[p].completed_cache]_vars

\* A step of cancel_pending_render: the control thread stays between calls
\* and the generation is raised.
CancelStep == /\ cpc = "idle"
              /\ cpc' = "idle"
              /\ pending_generation' = pending_generation + 1

\* Plan p has been cancelled or is no longer the session's plan.
Stale(p) == plans[p].cancelled \/ render_plan /= p

\* C7: cancel_pending_render raises the generation by one, leaves the pending
\* slot empty and not ready, and leaves no plan in flight, every plan being
\* marked cancelled; and every step of the worker of a plan that is cancelled
\* or no longer current leaves the plans, the pending slot, the generation
\* and the live configuration as they are and starts no unit of synthesis.
C7_CancelStopsTheJob ==
    [][/\ CancelStep =>
            /\ ~pending_ready'
            /\ pending_stem_data' = EmptyDict
            /\ pending_mix_data' = NoBuffer
            /\ pending_total_samples' = 0
            /\ render_plan' = 0
            /\ \A p \in PlanIds : plans'[p].cancelled
       /\ \A p \in PlanIds :
            (Stale(p) /\ wpc[p] \in {"pick", "synth", "store"}
                /\ wpc'[p] /= wpc[p]) =>
                /\ UNCHANGED <<plans, render_plan, pendVars, liveVars>>
                /\ wpc'[p] /= "synth"
                /\ wpc[p] /= "synth" => wpc'[p] = "done"]_vars

\* A job has been cancelled by cancel_pending_render while its worker was in
\* a unit of synthesis, and the worker is about to look at the plan again.
C7_Witness ==
    \E p \in PlanIds :
        /\ plans[p].cancelled
        /\ p \notin superseded
        /\ render_plan = 0
        /\ wpc[p] = "store"
        /\ processed[p] /= NoBuffer
        /\ ~pending_ready

C9_PlanInFlightHasWorker ==
    \A p \in PlanIds :
        (render_plan = p /\ ~plans[p].cancelled) => Working(p)

\* C10: a swap between two configurations of positive length, at a position
\* between 0 and the old total, leaves an index between 0 and the new total
\* minus one, whose fraction of the new total is within one sample of the
\* position's fraction of the old total.
C10_SwapPreservesFraction ==
    [][(/\ SwapStep
        /\ total_samples > 0
        /\ pending_total_samples > 0
        /\ play_index \in 0..total_samples)
       => /\ play_index' \in 0..(total_samples' - 1)
          /\ play_index' * total_samples - play_index * total_samples'
                \in (0 - total_samples)..total_samples]_vars

\* An 8-sample mix at 1.0x has been swapped for its 2.0x rendering of 4
\* samples and the index is 1, a quarter of the way as sample 2 was.
C10_Witness ==
    /\ ~pending_ready
    /\ orig_len[MIX] = 8
    /\ tempo_rate = 200
    /\ total_samples = 4
    /\ play_index = 1
    /\ Len(plans) = 1

\* A call of maybe_swap_pending.
SwapCall == MaybeSwapPending \/ SwapNotReady

\* C11: a call of maybe_swap_pending made while pending_ready is false
\* returns None and leaves the live configuration, the selection, the pending
\* slot, the reverb states and the playback index as they are.
C11_NotReadySwapChangesNothing ==
    [][(SwapCall /\ ~pending_ready) =>
          /\ swap_result' = << >>
          /\ UNCHANGED <<liveVars, pendVars, reverb_states, play_index>>]_vars

\* A swap to 2.0x has returned an index, and a later call, with nothing
\* pending, has returned None.
C11_Witness ==
    /\ sample_rate /= None
    /\ ~pending_ready
    /\ tempo_rate = MaxTempo
    /\ total_samples > 0
    /\ swap_result = << >>

\* C12: a call of maybe_swap_pending made while pending_ready is true makes,
\* in one step, the live buffers, tempo, pitch, total, missing set and
\* selection equal to the pending ones and leaves the pending slot empty and
\* not ready; a call that follows, with nothing newly published, returns None
\* and changes neither the live configuration nor the pending slot.
C12_SwapMovesPendingToLive ==
    [][/\ (SwapCall /\ pending_ready /\ sample_rate /= None) =>
            /\ current_stem_data' = pending_stem_data
            /\ current_mix_data' = pending_mix_data
            /\ tempo_rate' = pending_tempo_rate
            /\ pitch_semitones' = pending_pitch_semitones
            /\ total_samples' = pending_total_samples
            /\ current_missing_stems' = pending_missing_stems
            /\ play_all' = pending_target_play_all
            /\ active_stems' = pending_target_active_stems
            /\ pending_stem_data' = EmptyDict
            /\ pending_mix_data' = NoBuffer
            /\ pending_missing_stems' = {}
            /\ pending_total_samples' = 0
            /\ ~pending_ready'
       /\ (SwapCall /\ ~pending_ready /\ pending_stem_data = EmptyDict
              /\ pending_mix_data = NoBuffer) =>
            /\ swap_result' = << >>
            /\ UNCHANGED <<liveVars, slotVars, pending_ready>>]_vars

\* The result of the latest plan has been swapped in, and the call after it
\* has returned None.
C12_Witness ==
    /\ ~pending_ready
    /\ pending_mix_data = NoBuffer
    /\ current_mix_data.gen = pending_generation
    /\ current_mix_data.gen = Len(plans)
    /\ total_samples > 0
    /\ swap_result = << >>

C14_ChunkWithinUnit ==
    \A i \in 1..Len(chunk.data) :
        chunk.data[i] >= 0 - FullScale /\ chunk.data[i] <= FullScale

\* C15: when play_all is false, no selected stem has a live buffer and a live
\* mix exists, get_chunk inside the track returns the content of the mix at
\* the position asked for, and not silence.
C15_FallbackReturnsMix ==
    (/\ chunk /= NoChunk
     /\ sample_rate /= None
     /\ ~play_all
     /\ active_stems \cap DOMAIN current_stem_data = {}
     /\ current_mix_data /= NoBuffer
     /\ chunk.start < total_samples)
    => /\ Len(chunk.data) > 0
       /\ \E i \in 1..Len(chunk.data) : chunk.data[i] /= 0
       /\ WetAmount = 0 =>
            chunk.data = [i \in 1..Len(chunk.data) |->
                            Sample(current_mix_data, chunk.start + i - 1)]

\* The step of _pull_audio that reads the chunk.
ReadStep == pull.pc = "read" /\ pull'.pc = "idle"

C17_LoopChunkOnlyInsideLoop ==
    [][ReadStep =>
          LET bounds == GetBoundsSamples(total_samples)
              inside == /\ loop_enabled
                        /\ bounds /= << >>
                        /\ play_index >= bounds[1]
                        /\ play_index < bounds[2]
          IN  /\ inside => pull'.path = "loop"
              /\ ~inside => pull'.path = "linear"]_vars

\* The transport's state as the flags are read (get_playback_state).
TransportState ==
    IF ~is_playing THEN "stopped" ELSE IF is_paused THEN "paused" ELSE "playing"

\* C18: the transport is in one of the states Stopped, Playing, Paused, and
\* pause() moves Playing to Paused and leaves every other state as it is.
C18_PauseOnlyPausesPlaying ==
    [][/\ is_playing' \in BOOLEAN /\ is_paused' \in BOOLEAN
       /\ TransportState' \in {"stopped", "playing", "paused"}
       /\ Pause => TransportState' = IF TransportState = "playing"
                                     THEN "paused" ELSE TransportState]_vars

\* pause() has paused a playing transport.
C18_Witness == TransportState = "paused" /\ cpc = "idle" /\ play_index > 0

\* C19: with audio loaded, seek returns with play_index at the sample of the
\* clamped position, within 0..total_samples, and the transport Playing;
\* stop returns with the transport Stopped and play_index 0.
C19_SeekPlaysStopRewinds ==
    [][/\ SeekReturn => /\ TransportState' = "playing"
                        /\ play_index' \in SeekIndices(clocal.pos)
                        /\ play_index' >= 0 /\ play_index' <= total_samples'
       /\ StopReturn => /\ TransportState' = "stopped"
                        /\ ~is_paused'
                        /\ play_index' = 0]_vars

\* C20: while nothing is loaded, no control operation changes the state of
\* the session or of the transport.
C20_NoOpBeforeLoad ==
    [][(sample_rate = None /\ sample_rate' = None) =>
          UNCHANGED <<origVars, liveVars, reverb_states, pendVars, planVars,
                      play_index, playVars>>]_vars

\* C21: the worker of a plan never holds the pending lock while it executes
\* the time-stretch / pitch-shift primitive, and whoever holds the lock (a
\* worker picking or publishing, the callback swapping) gives it back without
\* any synthesis having to finish: the audio callback never blocks on
\* synthesis.
C21_LockNeverHeldOverSynthesis ==
    /\ [](\A p \in PlanIds : wpc[p] = "synth" => lock /= HeldByWorker(p))
    /\ (lock /= Unlocked) ~> (lock = Unlocked)

\* The callback is inside its locked section while a worker is inside the
\* primitive.
C21_Witness ==
    \E p \in PlanIds : wpc[p] = "synth" /\ lock = HeldByCallback

\* The live configuration is the audio as loaded, at the unit tempo and no
\* pitch shift, with everything selected.
LiveIsOriginal ==
    /\ current_stem_data = original_stem_data
    /\ current_mix_data = original_mix
    /\ tempo_rate = UnitTempo
    /\ pitch_semitones = ZeroPitch
    /\ play_all

\* reset_to_original_mix has returned: of the calls of SpecReset it alone
\* raises the generation counter without starting a plan.
ResetReturned == cpc = "idle" /\ pending_generation > Len(plans)

\* C22: once reset_to_original_mix has returned, and as long as no new
\* request is made, the live configuration is the original buffers at tempo
\* 1.0 and pitch 0 with play_all set, whatever was in flight or ready when it
\* was called.
C22_ResetStaysOriginal == ResetReturned => LiveIsOriginal

\* What ensure_selection_ready requires of the live configuration: the mix when
\* everything is played, a buffer for every selected stem otherwise.
SelectionAvailable ==
    IF play_all
    THEN original_mix /= NoBuffer => current_mix_data /= NoBuffer
    ELSE {name \in active_stems : name \in DOMAIN original_stem_data}
            \subseteq DOMAIN current_stem_data

\* A swap of the result of the render that ensure_selection_ready started for
\* the selection now live: it was rendered for the live tempo and pitch and
\* carries that selection as its target, and no call is in progress.
SelectionSwap ==
    /\ SwapStep
    /\ cpc = "idle"
    /\ pending_tempo_rate = tempo_rate
    /\ pending_pitch_semitones = pitch_semitones
    /\ pending_target_play_all = play_all
    /\ pending_target_active_stems = active_stems

\* C23: once the render that a selection change triggered is swapped in, every
\* selected source has a live buffer: every name of active_stems is a key of
\* current_stem_data when play_all is false (the stems that were live before
\* the change included), and current_mix_data is present when it is true.
C23_SelectedSourcesLiveAfterSwap ==
    [][SelectionSwap => SelectionAvailable']_vars

\* 0 <= start_fraction < end_fraction <= 1
LoopRegionOrdered ==
    /\ 0 <= start_fraction
    /\ start_fraction < end_fraction
    /\ end_fraction <= FractionGrid

\* What a call of set_start or set_end with these arguments owes: False and
\* both fractions unchanged when the duration is not above zero or the new
\* fraction would break the order, True otherwise.
LoopCallAnswers(position, duration) ==
    LET fraction == Fraction(position, duration)
        refusedStart == duration <= 0 \/ ~(fraction < end_fraction)
        refusedEnd == duration <= 0 \/ ~(start_fraction < fraction)
    IN  /\ SetStart(position, duration) =>
              /\ loop_result' = <<~refusedStart>>
              /\ refusedStart => UNCHANGED <<start_fraction, end_fraction>>
        /\ SetEnd(position, duration) =>
              /\ loop_result' = <<~refusedEnd>>
              /\ refusedEnd => UNCHANGED <<start_fraction, end_fraction>>

\* C24: after any sequence of set_start, set_end and reset_bounds calls, with
\* any positions and durations, 0 <= start_fraction < end_fraction <= 1; a
\* call that would break this, or whose duration is not above zero, returns
\* False and leaves both fractions as they are.
C24_LoopRegionOrdered ==
    /\ []LoopRegionOrdered
    /\ [][\A position \in Positions, duration \in Durations :
             LoopCallAnswers(position, duration)]_vars

\* A call was refused while the region was strictly inside the track.
C24_Witness ==
    /\ loop_result = <<FALSE>>
    /\ 0 < start_fraction
    /\ end_fraction < FractionGrid

\* C25: every sample of the live source that a loop-aware chunk copies or
\* blends has an index below loop_end, with crossfade on or off and from any
\* position at which the callback asks for the chunk.
C25_LoopReadsBelowLoopEnd ==
    [][(ReadStep /\ pull'.path = "loop") =>
          LET bounds == GetBoundsSamples(total_samples)
          IN  \A i \in LoopingReads(bounds[1], bounds[2], pull.frames) :
                 i < bounds[2]]_vars

\* request_tempo_pitch_change returns: from its tests, or from _queue_build.
RequestReturns == cpc \in {"request", "request_queue"} /\ cpc' = "idle"

\* The job in flight, if any, is for another (tempo, pitch) than the pair the
\* request in progress names, clamped.
InFlightDiffers ==
    /\ render_plan /= 0
    /\ ~plans[render_plan].cancelled
    /\ <<plans[render_plan].tempo_rate, plans[render_plan].pitch_semitones>>
          /= <<Clamp(clocal.tempo, MinTempo, MaxTempo),
               Clamp(clocal.pitch, MinPitch, MaxPitch)>>

\* C26: a tempo/pitch request that names another (tempo, pitch) than the job
\* in flight marks that job cancelled and starts a fresh job for the pair it
\* names, whatever the pair within the clamp range, the live pair included.
C26_DifferentRequestRestarts ==
    [][(RequestReturns /\ InFlightDiffers) =>
          /\ plans'[render_plan].cancelled
          /\ Len(plans') = Len(plans) + 1
          /\ render_plan' = Len(plans')
          /\ plans'[render_plan'].tempo_rate
                = Clamp(clocal.tempo, MinTempo, MaxTempo)
          /\ plans'[render_plan'].pitch_semitones
                = Clamp(clocal.pitch, MinPitch, MaxPitch)]_vars

\* The worker of plan p has returned, and the plan is marked cancelled: by the
\* request that replaced it or by cancel_pending_render, or by
\* _finalize_render_plan, which wrote its results to the pending slot, set
\* pending_ready and cleared _render_plan.
PlanSettled(p) ==
    /\ p \in PlanIds
    /\ wpc[p] = "done"
    /\ plans[p].cancelled
    /\ render_plan /= p

\* C27: with a primitive that returns and workers that are scheduled, every
\* plan that is started is in the end cancelled or finalized and its worker
\* has returned: no worker waits for ever on the condition, whatever
\* retargeting requests arrive while it runs.
C27_EveryPlanSettles ==
    \A p \in 1..MaxGen : (p \in PlanIds /\ Working(p)) ~> PlanSettled(p)

\* The plan of a tempo request made with everything selected rendered the
\* mix, was retargeted to the stem "a" alone by a second request for its
\* tempo, and has been finalized.
C27_Witness ==
    /\ Len(plans) = 1
    /\ PlanSettled(1)
    /\ pending_ready
    /\ plans[1].tempo_rate = MaxTempo
    /\ tempo_rate = UnitTempo
    /\ plans[1].mix_data /= NoBuffer
    /\ ~plans[1].include_mix
    /\ plans[1].requested_stems = {"a"}
    /\ DOMAIN pending_stem_data = {"a"}

\* The linear read of this callback delivers the last sample of the track.
DeliversLastSample ==
    /\ total_samples > 0
    /\ play_index < total_samples
    /\ play_index + ChunkSize(play_index, pull.frames) >= total_samples

SilentCallback ==
    /\ pull.pc = "idle"
    /\ TransportState /= "playing"
    /\ pull' /= pull

\* C29: a callback made while the transport is stopped or paused returns
\* `frames` zeros, leaves output_level 0 and clipping false, does not move
\* play_index and does not swap the pending configuration in.
C29_SilentWhenNotPlaying ==
    [][SilentCallback =>
          /\ pull'.pc = "idle"
          /\ pull'.path = "silent"
          /\ pull'.zeros \in 1..MaxFrames
          /\ pull'.meters = "zero"
          /\ play_index' = play_index
          /\ UNCHANGED <<liveVars, pendVars, reverb_states, is_playing,
                         is_paused>>]_vars

\* A callback has returned silence while the transport was paused in the
\* middle of the track with a configuration ready to be swapped in, after a
\* callback that played.
C29_Witness ==
    /\ pull.path = "silent"
    /\ pull.zeros = MaxFrames
    /\ TransportState = "paused"
    /\ pending_ready
    /\ play_index > 0

\* The sources contributing to playback: the targets of the selection, the
\* mix when the selection has no target and get_chunk falls back to it, and
\* the sources of the last chunk.
AudibleSources ==
    LET targets == ReverbTargets(play_all, active_stems, current_stem_data,
                                 current_mix_data)
    IN  targets \cup chunk.sources
            \cup (IF targets = {} /\ current_mix_data /= NoBuffer
                  THEN {MIX} ELSE {})

\* C30: after a get_chunk call the keys of reverb_states are sources
\* contributing to playback, and the call has not reset and deleted the
\* reverb of a source that puts a segment into its chunk, the mix played
\* through the fallback included.
C30_AudibleReverbKept ==
    /\ reverb_states \subseteq AudibleSources
    /\ chunk.dropped \cap chunk.sources = {}

\* The least of the lengths of the buffers, 0 if there is none.
MinLength(bufs) ==
    IF bufs = {} THEN 0
    ELSE CHOOSE n \in {BufLen(b) : b \in bufs} :
            \A b \in bufs : n <= BufLen(b)

\* C31: total_samples of the live configuration is the least of the lengths
\* of its populated buffers, stems and mix, and 0 if it has none, whatever the
\* lengths, zero included.
C31_TotalIsMinimumLength ==
    total_samples = MinLength(LiveBuffers)

\* Nothing is left to do for a request: the control thread is in no call, no
\* plan is in flight, every worker thread has ended and nothing is ready to be
\* swapped in.
RequestsSettled ==
    /\ last_request /= NoRequest
    /\ cpc = "idle"
    /\ render_plan = 0
    /\ ~pending_ready
    /\ \A p \in PlanIds : wpc[p] = "done"

\* C32: once the requests for a tempo and a pitch have been worked off and no
\* other is made, the session plays at the tempo and the pitch of the last
\* request.
C32_LastRequestIsLive ==
    RequestsSettled =>
        /\ tempo_rate = last_request.tempo
        /\ pitch_semitones = last_request.pitch

\* C33: a pending configuration is ready only while no plan is in flight, and
\* a call of maybe_swap_pending made while none is ready moves nothing from
\* the pending slot into the live configuration.
C33_ReadyOnlyWithNoPlanInFlight ==
    /\ [](pending_ready => render_plan = 0)
    /\ [][(SwapCall /\ ~pending_ready) => UNCHANGED <<liveVars, slotVars>>]_vars

\* The result of a plan that replaced another is ready, no plan is in flight
\* and no call of maybe_swap_pending has returned an index.
C33_Witness ==
    /\ pending_ready
    /\ render_plan = 0
    /\ superseded /= {}
    /\ pending_generation = Len(plans)
    /\ swap_result = << >>

\* apply_pending_tempo_pitch: what it returns, new_index being what
\* maybe_swap_pending returned (<< >> for None).
ApplyReturnsTrue(new_index) == new_index /= << >>

\* C34: apply_pending_tempo_pitch, called while the transport is not playing,
\* returns True exactly when a pending configuration was ready and has
\* replaced the live one, whatever the old and the new total_samples.
C34_TrueExactlyWhenSwapped ==
    [][SwapCall =>
          (ApplyReturnsTrue(swap_result') <=> (pending_ready /\ sample_rate /= None))]_vars

\* Looping is enabled, the track has samples and play_index is at or before
\* loop_end.
LoopingAt(index) ==
    /\ loop_enabled
    /\ total_samples > 0
    /\ index <= GetBoundsSamples(total_samples)[2]

C36_PositionInsideTrack ==
    pull.pc = "idle" => (0 <= play_index /\ play_index <= total_samples)

\* The clips that are in active_clips.
ActiveIds ==
    {sample_player.active_clips[i].id :
        i \in 1..Len(sample_player.active_clips)}

\* C37: between two callbacks of the SamplePlayer, a clip that does not loop
\* has emitted its samples from start_index on, in order and each once, and
\* is in active_clips exactly as long as its last sample has not been
\* emitted; a clip that loops is in active_clips with its index in
\* [0, size).
C37_ClipLifecycle ==
    sample_player.pc = "idle" =>
        \A id \in 1..Len(sample_player.started) :
           LET asked == sample_player.started[id]
               out == sample_player.emitted[id]
           IN  IF asked.loop
               THEN \E i \in 1..Len(sample_player.active_clips) :
                       /\ sample_player.active_clips[i].id = id
                       /\ sample_player.active_clips[i].index >= 0
                       /\ sample_player.active_clips[i].index < asked.size
               ELSE /\ \A k \in 1..Len(out) : out[k] = asked.index + k - 1
                    /\ Len(out) <= asked.size - asked.index
                    /\ (id \in ActiveIds) <=>
                          (Len(out) < asked.size - asked.index)

\* The number of messages of the kind on the queue.
Messages(kind) ==
    Cardinality({i \in 1..Len(pipeline.msgs) : pipeline.msgs[i].kind = kind})

\* C38: the queue of a run of _run_pipeline_subprocess holds at most one
\* 'result' or 'error' message and at most one 'complete'; a 'complete' is
\* the last message on it and has exactly one 'result' or 'error' before it;
\* and a run that has ended has put its 'complete'.
C38_CompleteIsLast ==
    /\ Messages("result") + Messages("error") <= 1
    /\ Messages("complete") <= 1
    /\ Messages("complete") = 1 =>
          /\ pipeline.msgs[Len(pipeline.msgs)].kind = "complete"
          /\ Messages("result") + Messages("error") = 1
    /\ pipeline.pc = "end" => Messages("complete") = 1

\* A run has ended with an 'error' after run_demucs raised, the key having
\* been detected.
C38_Witness ==
    /\ pipeline.pc = "end"
    /\ pipeline.stems = "raised"
    /\ pipeline.key = "done"
    /\ Messages("error") = 1

\* The total_samples handed to get_bounds_samples.
Totals == (0 - 1)..MaxLen

\* C39: whatever loop fractions are stored, get_bounds_samples(total_samples)
\* returns None exactly when total_samples <= 0, and for total_samples > 0
\* it returns (start, end) with 0 <= start < end <= total_samples.
C39_BoundsInsideTrack ==
    \A total \in Totals :
        LET bounds == GetBoundsSamples(total)
        IN  /\ (bounds = << >>) <=> (total <= 0)
            /\ total > 0 =>
                  /\ Len(bounds) = 2
                  /\ 0 <= bounds[1]
                  /\ bounds[1] < bounds[2]
                  /\ bounds[2] <= total

\* Fractions are stored that fall on the same sample of a track of one sample,
\* and get_bounds_samples has kept the end above the start.
C39_Witness ==
    /\ start_fraction = 1
    /\ end_fraction = 2
    /\ (start_fraction * 1) \div FractionGrid = (end_fraction * 1) \div FractionGrid
    /\ GetBoundsSamples(1) = <<0, 1>>

====
